---- MODULE Spec2Model ----
(***************************************************************************)
(* A model of the rpc package of flychain: the server-side Notifier, the   *)
(* batchCallBuffer, the handler's entry points as served by                *)
(* Server.serveSingleRequest, the client-side ClientSubscription, and the  *)
(* handler's request, subscription and shutdown bookkeeping.  Each         *)
(* component has its own specification; the Notifier, the batch and the    *)
(* server share the connection `wire` (the sequence of values handed to    *)
(* conn.writeJSON).                                                        *)
(***************************************************************************)
EXTENDS Integers, Sequences, FiniteSets, TLC

\* ------------------------------------------------------------------ bounds
NumNotify == 3      \* concurrent Notifier.Notify calls
MaxCreate == 2      \* CreateSubscription attempts on one Notifier
MaxBatch == 3       \* messages in one batch
NumUnsub == 3       \* concurrent ClientSubscription.Unsubscribe calls
MaxEvents == 2      \* notifications the dispatcher delivers to one subscription

\* --------------------------------------------------------------- constants
maxClientSubscriptionBuffer == 20000

VARIABLES
    wire,            \* values written with conn.writeJSON, in order
    connOk,          \* FALSE once the connection is broken: writeJSON fails
    \* --- Notifier (src/rpc/subscription.go)
    n_sub,           \* Notifier.sub: NoSub or the Subscription's ID
    n_buffer,        \* Notifier.buffer
    n_callReturned,  \* Notifier.callReturned
    n_activated,     \* Notifier.activated
    n_mu,            \* Notifier.mu: 0 free, p a Notify call, -1 activate
    nt_pc,           \* per Notify call: "idle", "locked", "done"
    nt_id,           \* per Notify call: the id argument
    nt_res,          \* per Notify call: "none", "ok", "err", "panic"
    lockOrder,       \* Notify calls in the order they took n.mu
    c_res,           \* results of the CreateSubscription calls so far
    h_pc,            \* the subscribe call: "running", "returned", "responded"
    h_panic,         \* the last panic of a Notifier method: the goroutine
                     \* it was raised on and what became of it
    a_pc,            \* activate(): "idle", "flush", "done"
    a_i,             \* activate(): buffered payloads already sent
    a_res,           \* activate(): "none", "ok", "err"
    \* --- batchCallBuffer (src/rpc/handler.go)
    b_calls,         \* batchCallBuffer.calls
    b_resp,          \* batchCallBuffer.resp
    b_wrote,         \* batchCallBuffer.wrote
    origCalls,       \* the calls the buffer was created with
    p_pc,            \* the call-processing task: "next", "run", "write", "done"
    p_msg,           \* the message the last nextCall returned
    pushLog,         \* the answers given to pushResponse, in order
    t_pc,            \* the batch deadline: "armed" or "fired"
    t_done,          \* Len(pushLog) when timeout() ran
    t_wrote,         \* b.wrote as timeout() found it
    \* --- Server.serveSingleRequest and its handler (src/rpc/server.go)
    s_run,           \* Server.run
    s_pc,            \* "start", "read", "dispatch", "closing", "returned"
    s_reqs,          \* the messages readBatch returned
    s_batch,         \* whether they were read as a batch
    s_err,           \* readBatch's error: "nil", "EOF", "parse"
    \* --- ClientSubscription (src/rpc/subscription.go)
    once_done,       \* sub.errOnce: its function has run
    once_mu,         \* sub.errOnce's mutex: 0 free, or the caller holding it
    u_pc,            \* per Unsubscribe call: "idle", "slow", "select",
                     \* "waitDone", "closeErr", "returned", "panic"
    r_pc,            \* run(): "idle", "forward", "fwdReturned", "unsub",
                     \* "sendErr", "done", "panic"
    f_unsub,         \* forward()'s result unsubscribeServer
    f_err,           \* forward()'s result err
    f_buffer,        \* forward()'s buffer
    forwardDone,     \* sub.forwardDone is closed
    unsubDone,       \* sub.unsubDone is closed
    e_closes,        \* how many times close(sub.err) ran
    q_unsub,         \* how many times Unsubscribe sent on sub.quit
    d_n,             \* deliver calls by the dispatcher so far
    d_last,          \* the number of the last event the dispatcher has
    d_closed,        \* the dispatcher called sub.close(err)
    got,             \* values received on the consumer's channel
    errSeen,         \* values received from sub.Err()
    unsubReq,        \* requestUnsubscribe calls
    cause,           \* what made forward return: its kind, and for a quit
                     \* sent by sub.close the value sent
    \* --- handler (src/rpc/handler.go)
    respWait,        \* handler.respWait: request id -> requestOp, or NoOp
    op_added,        \* per requestOp: addRequestOp was called for it
    op_err,          \* per requestOp: op.err
    op_resp,         \* per requestOp: the messages sent on op.resp
    op_closes,       \* per requestOp: how many times close(op.resp) ran
    clientSubs,      \* handler.clientSubs: the keys the subscription is under
    cs_subid,        \* op.sub.subid of the subscribe request's subscription
    cs_runs,         \* how many times its run() was started
    cs_quit,         \* the errors given to its close()
    serverSubs,      \* handler.serverSubs: the ids registered
    ss_err,          \* per server subscription: whether it was ever
                     \* registered, the values sent on its err channel and
                     \* how many times the channel was closed
    us_res,          \* the last unsubscribe call: id, results, a tick
    h_msg,           \* the last message handleResponse was given, a tick
    wg,              \* handler.CallWG's counter
    rootCancelled,   \* handler.cancelRoot was called
    cp_pc,           \* per call task: "idle", "running", "returned"
    cp_kind,         \* per call task: "self" returns by itself, "ctx" only
                     \* once its context is cancelled
    cp_res,          \* per call task: how its method ended and the message
                     \* runMethod returned
    hc_pc,           \* handler.close: "idle", "wait", "cancelRoot", "subs",
                     \* "returned"
    hc_arg,          \* handler.close's arguments err and inflightReq
    \* --- TypeMux (event/event.go) ---
    mx_subm,         \* mux.subm: per event type its subscriptions, in order
    mx_stopped,      \* mux.stopped
    mx_mutex,        \* mux.mutex: "free" or held by "stop"
    mx_sub,          \* per subscription: made or not, closed, how often
                     \* closing and postC were closed, postC nil or not
    mx_closeMu,      \* per subscription: who holds closeMu
    mx_got,          \* per subscription: the events its consumer received
    mx_post,         \* the Post call under way and the last result
    mx_stop,         \* the Stop call under way
    mx_unsub,        \* per subscription: its Unsubscribe call under way
    mx_fault,        \* a panic: "none", or the operation that faulted
    \* --- Feed (event/event_test.go:150-347) ---
    fd_etype,        \* f.etype: "nil" or the element type
    fd_inbox,        \* f.inbox, the channels of its cases
    fd_arr,          \* the array behind f.sendCases, up to its capacity
    fd_len,          \* len(f.sendCases)
    fd_sendLock,     \* TRUE while the token is in f.sendLock
    fd_send,         \* the Send call: position, value type, nsent, cases
    fd_rm,           \* per channel: position of its Unsubscribe call
    fd_sub,          \* per channel: "none", "subscribed", "unsubscribed"
    fd_got,          \* per channel: the Sends whose value it received
    fd_ret,          \* what the last Send returned and what it delivered
    fd_fault,        \* the last panic of a Feed call
    \* --- Server.Stop and its codecs (server.go) ---
    sv_mutex,        \* s.mutex: 0 when free, else the Stop call holding it
    sv_codecs,       \* s.codecs
    sv_closes,       \* per codec: how often Stop called codec.close()
    sv_stop,         \* per Stop call: position, codecs left to close
    sv_track,        \* per codec: what trackCodec returned for it
    \* --- event.ResubscribeErr (event/subscription.go) ---
    rs_pc,           \* loop: "fn", "cancelled", "backoff", "active",
                     \* "ending", "closed"
    rs_tries,        \* the calls of fn made
    rs_last,         \* s.lastSubErr
    rs_errClosed,    \* s.err is closed
    rs_once,         \* s.unsubOnce: its mutex's holder (0: free), done
    rs_u,            \* per caller of Unsubscribe: "idle", "slow", "send",
                     \* "wait", "returned"
    \* --- jsonrpcMessage classification (json.go) ---
    j_msg,           \* the message under classification
    j_class,         \* what its predicates answered, once asked
    \* --- serviceRegistry (service.go) ---
    services,        \* r.services: per namespace its service, or NoService
    reg_log,         \* the registerName calls made so far, with their
                     \* outcome
    \* --- BlockNumber (types.go) ---
    bn_in,           \* a text to decode or a BlockNumber to encode
    bn_out,          \* the result of the round trip, once made
    \* --- Client write lock (client.go) ---
    k_lock,          \* the writer holding the write lock, 0 when free
    k_pc,            \* per writer: "idle", "write", "sent"
    k_done,          \* per writer: the writes it completed
    k_conn,          \* c.writeConn: the connection's generation, 0 for nil
    \* --- event.NewSubscription (event/subscription.go) ---
    fs_pc,           \* the producer goroutine: "run", "ret", "locked",
                     \* "unlocked", "done"
    fs_ret,          \* what the producer returned
    fs_early,        \* the producer returned before any Unsubscribe call
    fs_mu,           \* s.mu: "free", or held by the "producer" goroutine
                     \* or by a "caller" of Unsubscribe
    fs_unsubscribed, \* s.unsubscribed
    fs_unsub,        \* s.unsub: how often it was closed
    fs_err,          \* s.err: its buffer, what was sent on it so far, and
                     \* how often it was closed
    fs_u,            \* per caller of Unsubscribe: "idle", "locked", "wait"
    fs_calls,        \* per caller: the Unsubscribe calls that returned
    fs_reads         \* what the consumer received from Err(), in order

nvars == <<n_sub, n_buffer, n_callReturned, n_activated, n_mu, nt_pc, nt_id,
           nt_res, lockOrder, c_res, h_pc, h_panic, a_pc, a_i, a_res>>
bvars == <<b_calls, b_resp, b_wrote, origCalls, p_pc, p_msg, pushLog, t_pc,
           t_done, t_wrote>>
svars == <<s_run, s_pc, s_reqs, s_batch, s_err>>
uvars == <<once_done, once_mu, u_pc, r_pc, f_unsub, f_err, f_buffer,
           forwardDone, unsubDone, e_closes, q_unsub, d_n, d_last, d_closed,
           got, errSeen, unsubReq, cause>>
hvars == <<respWait, op_added, op_err, op_resp, op_closes, clientSubs,
           cs_subid, cs_runs, cs_quit, serverSubs, ss_err, us_res, h_msg, wg,
           rootCancelled, cp_pc, cp_kind, cp_res, hc_pc, hc_arg>>
cvars == <<wire, connOk>>
jvars == <<j_msg, j_class>>
\* the components specified further down
gvars == <<services, reg_log>>
tvars == <<bn_in, bn_out>>
kvars == <<k_lock, k_pc, k_done, k_conn>>
fvars == <<fs_pc, fs_ret, fs_early, fs_mu, fs_unsubscribed, fs_unsub, fs_err,
           fs_u, fs_calls, fs_reads>>
xvars == <<mx_subm, mx_stopped, mx_mutex, mx_sub, mx_closeMu, mx_got, mx_post,
           mx_stop, mx_unsub, mx_fault>>
yvars == <<fd_etype, fd_inbox, fd_arr, fd_len, fd_sendLock, fd_send, fd_rm,
           fd_sub, fd_got, fd_ret, fd_fault>>
zvars == <<sv_mutex, sv_codecs, sv_closes, sv_stop, sv_track>>
rvars == <<rs_pc, rs_tries, rs_last, rs_errClosed, rs_once, rs_u>>
lvars == <<jvars, gvars, tvars, kvars, fvars,
           xvars,
           yvars,
           zvars,
           rvars>>
vars == <<cvars, nvars, bvars, svars, uvars, hvars, lvars>>

\* ------------------------------------------------------------ wire values
vsn == "2.0"
notificationMethodSuffix == "_subscription"
NilID == <<>>        \* a jsonrpcMessage.ID that is nil (absent)
NoSub == "nosub"     \* Notifier.sub == nil
NewSubID == "0x1"    \* the ID h.idgen() returns for this notifier
OtherSubID == "0x2"  \* some other subscription's ID
NProcs == 1..NumNotify
UProcs == 1..NumUnsub
Nil == "nil"         \* a nil json.RawMessage (params, result) or *jsonError
NilMsg == [nil |-> TRUE]   \* a nil *jsonrpcMessage
\* why forward returned; Running while it has not
Ended(kind, err) == [kind |-> kind, err |-> err]
Running == Ended("running", "nil")

\* jsonrpcMessage: ID is the raw bytes of the id, <<>> when absent.
Message(version, id, method, params, error, result) ==
    [Version |-> version, ID |-> id, Method |-> method, Params |-> params,
     Error |-> error, Result |-> result]

hasValidVersion(msg) == msg.Version = vsn
\* hasValidID turning away objects only
hasValidIDNoObject(msg) == Len(msg.ID) > 0 /\ msg.ID[1] # "{"
\* isNotification without its test of the id
isNotificationAnyID(msg) == hasValidVersion(msg) /\ msg.Method # ""
hasValidID(msg) == Len(msg.ID) > 0 /\ msg.ID[1] # "{" /\ msg.ID[1] # "["
isNotification(msg) ==
    hasValidVersion(msg) /\ msg.ID = NilID /\ msg.Method # ""
isCall(msg) == hasValidVersion(msg) /\ hasValidID(msg) /\ msg.Method # ""
isResponse(msg) ==
    /\ hasValidVersion(msg) /\ hasValidID(msg)
    /\ msg.Method = "" /\ msg.Params = Nil
    /\ (msg.Result # Nil \/ msg.Error # Nil)

\* errorMessage(err), then resp.ID = msg.ID
errResponse(msg, err) == Message(vsn, msg.ID, "", Nil, err, Nil)
\* msg.response(result): a result json.Marshal rejects gives an error
\* response instead.
response(msg, result) ==
    IF result = "unmarshalable"
       THEN errResponse(msg, "marshal error")
       ELSE Message(vsn, msg.ID, "", Nil, Nil, result)

\* conn.writeJSON(ctx, v, isError): appends v to the wire, or fails on a
\* broken connection leaving the wire alone.  Yields the new wire.
writeJSON(w, v) == IF connOk THEN Append(w, v) ELSE w

\* Notifier.send: the subscription-event notification written for `data`.
send(sub, data) ==
    [kind |-> "notification", Version |-> vsn, ID |-> NilID,
     Method |-> notificationMethodSuffix,
     Params |-> [subscription |-> sub, result |-> data]]

\* Notify as it would be without the activation barrier: always written.
NotifyNoBarrier(activated) == "send"
\* Notifier.Notify, after json.Marshal: what the call does with the
\* encoded payload once it holds n.mu.  "send" or "buffer".
NotifyBranch(activated) == IF activated THEN "send" ELSE "buffer"

\* the payload put in front of the buffer instead of at its end
BufferPrepend(buf, enc) == <<enc>> \o buf
\* n.buffer = append(n.buffer, enc)
BufferAppend(buf, enc) == Append(buf, enc)

\* the components a specification does not exercise stay in these states
\* ------------------------------------------------------------- handler
NumProcs == 2        \* call tasks startCallProc starts
NoOp == "noop"       \* no requestOp (a nil *requestOp)
CallOp == "call"     \* the requestOp of a Call: one id
BatchOp == "batch"   \* the requestOp of a BatchCall: two ids
SubOp == "subscribe" \* the requestOp of a Subscribe: one id, op.sub set
Ops == {CallOp, BatchOp, SubOp}
\* requestOp.ids
ids(op) ==
    IF op = CallOp THEN {<<"1">>}
    ELSE IF op = BatchOp THEN {<<"2">>, <<"3">>}
    ELSE {<<"4">>}
\* the ids a response can carry: those of the requests and one never sent
RespIDs == {<<"1">>, <<"2">>, <<"3">>, <<"4">>, <<"9">>}
\* the ids of server-side subscriptions
SubIDs == {NewSubID, OtherSubID}
CallProcs == 1..NumProcs
ErrSubscriptionNotFound == "subscription not found"
NoArg == [err |-> "nil", inflightReq |-> NoOp]
NoRes == [out |-> "none", resp |-> NilMsg]

\* no message under classification
NotAsked == [asked |-> FALSE]
InitJsonIdle == j_msg = NilMsg /\ j_class = NotAsked

\* the components specified further down, at rest
\* a serviceRegistry nothing was registered in
NoService == [present |-> FALSE]
InitRegistry == services = [ns \in {"eth", "net"} |-> NoService] /\ reg_log = <<>>

\* no BlockNumber under conversion
NoTrip == [done |-> FALSE]
InitTypesIdle == bn_in = [kind |-> "none"] /\ bn_out = NoTrip

\* a connected Client nobody writes on
InitClient ==
    /\ k_lock = 0 /\ k_conn = 1
    /\ k_pc = [w \in 1..3 |-> "idle"] /\ k_done = [w \in 1..3 |-> 0]

\* NewSubscription: the producer runs, nothing sent or closed
InitFunSub ==
    /\ fs_pc = "run" /\ fs_ret = Nil /\ fs_early = FALSE
    /\ fs_mu = "free" /\ fs_unsubscribed = FALSE /\ fs_unsub = 0
    /\ fs_err = [buf |-> <<>>, sent |-> <<>>, closes |-> 0]
    /\ fs_u = [x \in 1..2 |-> "idle"] /\ fs_calls = [x \in 1..2 |-> 0]
    /\ fs_reads = <<>>

\* a TypeMux as declared (zero value), no subscription made
NoMuxSub ==
    [made |-> FALSE, closed |-> FALSE, closing |-> 0, postC |-> 0,
     postNil |-> FALSE]
InitMux ==
    /\ mx_subm = [t \in {"A", "B"} |-> <<>>] /\ mx_stopped = FALSE
    /\ mx_mutex = "free"
    /\ mx_sub = [s \in 1..2 |-> NoMuxSub]
    /\ mx_closeMu = [s \in 1..2 |-> "free"]
    /\ mx_got = [s \in 1..2 |-> <<>>]
    /\ mx_post = [pc |-> "idle", n |-> 0, ev |-> [type |-> "A", n |-> 0],
                  subs |-> <<>>, before |-> {}, res |-> "none"]
    /\ mx_stop = [pc |-> "idle", n |-> 0, todo |-> <<>>]
    /\ mx_unsub = [s \in 1..2 |-> [pc |-> "idle", n |-> 0]]
    /\ mx_fault = "none"

\* the components specified last, at rest
FeedChans == 1..2
\* a select case: ch = 0 receives from f.removeSub, ch > 0 sends on that
\* channel, ch = -1 is the zero SelectCase; send: its Send value is set
SelectCase(c, s) == [ch |-> c, send |-> s]
NoCases == [own |-> <<>>, len |-> 0, shared |-> TRUE]

\* a Feed after init, no Send or Subscribe made
InitFeed ==
    /\ fd_etype = "nil" /\ fd_inbox = <<>>
    /\ fd_arr = <<SelectCase(0, FALSE)>> /\ fd_len = 1
    /\ fd_sendLock = TRUE
    /\ fd_send = [pc |-> "idle", n |-> 0, typ |-> "int", nsent |-> 0, i |-> 1,
                  to |-> {}, cases |-> NoCases]
    /\ fd_rm = [c \in FeedChans |-> "idle"]
    /\ fd_sub = [c \in FeedChans |-> "none"]
    /\ fd_got = [c \in FeedChans |-> <<>>]
    /\ fd_ret = [nsent |-> 0, delivered |-> 0]
    /\ fd_fault = "none"

MaxCodecs == 2
NumStops == 2
Codecs == 1..MaxCodecs
Stoppers == 1..NumStops

\* the codecs of a Server as NewServer returns it, no Stop called
InitServer ==
    /\ sv_mutex = 0 /\ sv_codecs = {}
    /\ sv_closes = [c \in Codecs |-> 0]
    /\ sv_stop = [p \in Stoppers |-> [pc |-> "idle", won |-> FALSE,
                                      todo |-> {}, first |-> {}]]
    /\ sv_track = [c \in Codecs |-> "none"]

MaxTries == 2
ResubCallers == 1..NumUnsub

\* ResubscribeErr has returned: loop runs and is in its first call of fn
InitResub ==
    /\ rs_pc = "fn" /\ rs_tries = 1 /\ rs_last = "nil"
    /\ rs_errClosed = FALSE
    /\ rs_once = [mu |-> 0, done |-> FALSE]
    /\ rs_u = [u \in ResubCallers |-> "idle"]

InitRest ==
    /\ InitMux
    /\ InitFeed
    /\ InitServer
    /\ InitResub

InitLater ==
    /\ InitJsonIdle /\ InitRegistry /\ InitTypesIdle /\ InitClient
    /\ InitFunSub
    /\ InitRest

\* NewHandler: empty maps, a live root context, no call task.
InitHandler ==
    /\ respWait = [id \in RespIDs |-> NoOp]
    /\ op_added = [op \in Ops |-> FALSE]
    /\ op_err = [op \in Ops |-> Nil]
    /\ op_resp = [op \in Ops |-> <<>>]
    /\ op_closes = [op \in Ops |-> 0]
    /\ clientSubs = {}
    /\ cs_subid = "" /\ cs_runs = 0 /\ cs_quit = <<>>
    /\ serverSubs = {}
    /\ ss_err = [id \in SubIDs |->
                    [added |-> FALSE, sent |-> <<>>, closes |-> 0]]
    /\ us_res = [id |-> NoSub, ok |-> FALSE, err |-> Nil, tick |-> FALSE]
    /\ h_msg = [msg |-> NilMsg, tick |-> FALSE]
    /\ wg = 0 /\ rootCancelled = FALSE
    /\ cp_pc = [p \in CallProcs |-> "idle"]
    /\ cp_kind = [p \in CallProcs |-> "self"]
    /\ cp_res = [p \in CallProcs |-> NoRes]
    /\ hc_pc = "idle" /\ hc_arg = NoArg

InitBatchIdle ==
    /\ b_calls = <<>> /\ b_resp = <<>> /\ b_wrote = FALSE /\ origCalls = <<>>
    /\ p_pc = "done" /\ p_msg = NilMsg /\ pushLog = <<>>
    /\ t_pc = "fired" /\ t_done = 0 /\ t_wrote = FALSE

InitServeIdle ==
    /\ s_run = 0 /\ s_pc = "returned" /\ s_reqs = <<>>
    /\ s_batch = FALSE /\ s_err = "nil"

\* ClientSubscription as newClientSubscription returns it
InitClientSub ==
    /\ once_done = FALSE /\ once_mu = 0
    /\ u_pc = [u \in UProcs |-> "idle"]
    /\ r_pc = "idle"
    /\ f_unsub = FALSE /\ f_err = "nil" /\ f_buffer = <<>>
    /\ forwardDone = FALSE /\ unsubDone = FALSE
    /\ e_closes = 0 /\ q_unsub = 0
    /\ d_n = 0 /\ d_last = MaxEvents /\ d_closed = FALSE
    /\ got = <<>> /\ errSeen = <<>> /\ unsubReq = 0
    /\ cause = Running

\* ------------------------------------------------------------ Notifier
NoPanic == [g |-> "none", res |-> "none"]
\* The goroutines a Notifier method can be called on: the one running the
\* method call inside callback.call (while it runs and has not panicked),
\* or any other one the application started.
Goroutines ==
    IF h_pc = "running" /\ h_panic = NoPanic THEN {"call", "other"}
    ELSE {"other"}
\* the process is still there: no panic went unrecovered
Alive == h_panic.res # "crash"

\* callback.call without its deferred recover
callNoRecover(g) == [g |-> g, res |-> "crash"]
\* callback.call when fn panics on goroutine g: the deferred recover turns
\* a panic of fn's own goroutine into the error result; a panic on any
\* other goroutine is not recovered and ends the process.
call(g) ==
    IF g = "call" THEN [g |-> g, res |-> "method handler crashed"]
    ELSE [g |-> g, res |-> "crash"]

InitNotifier ==
    /\ n_sub = NoSub
    /\ n_buffer = <<>>
    /\ n_callReturned = FALSE
    /\ n_activated = FALSE
    /\ n_mu = 0
    /\ nt_pc = [p \in NProcs |-> "idle"]
    /\ nt_id = [p \in NProcs |-> NoSub]
    /\ nt_res = [p \in NProcs |-> "none"]
    /\ lockOrder = <<>>
    /\ c_res = <<>>
    /\ h_pc = "running"
    /\ h_panic = NoPanic
    /\ a_pc = "idle"
    /\ a_i = 0
    /\ a_res = "none"

\* a CreateSubscription that does not look at n.callReturned
CreateSubscriptionAnyTime ==
    /\ Alive
    /\ Len(c_res) < MaxCreate
    /\ n_mu = 0
    /\ IF n_sub # NoSub
          THEN /\ c_res' = Append(c_res, "panic")
               /\ n_sub' = n_sub
               /\ \E g \in Goroutines : h_panic' = call(g)
          ELSE /\ c_res' = Append(c_res, NewSubID)
               /\ n_sub' = NewSubID
               /\ UNCHANGED h_panic
    /\ UNCHANGED <<cvars, n_buffer, n_callReturned, n_activated, n_mu, nt_pc,
                   nt_id, nt_res, lockOrder, h_pc, a_pc, a_i, a_res>>

\* Notifier.CreateSubscription: holds n.mu for its whole body.
CreateSubscription ==
    /\ Alive
    /\ Len(c_res) < MaxCreate
    /\ n_mu = 0
    /\ IF n_sub # NoSub \/ n_callReturned
          THEN /\ c_res' = Append(c_res, "panic")
               /\ n_sub' = n_sub
               /\ \E g \in Goroutines : h_panic' = call(g)
          ELSE /\ c_res' = Append(c_res, NewSubID)
               /\ n_sub' = NewSubID
               /\ UNCHANGED h_panic
    /\ UNCHANGED <<cvars, n_buffer, n_callReturned, n_activated, n_mu, nt_pc,
                   nt_id, nt_res, lockOrder, h_pc, a_pc, a_i, a_res>>

\* Notifier.Notify: json.Marshal(data) fails and the call returns the error.
NotifyMarshalErr(p) ==
    /\ Alive
    /\ nt_pc[p] = "idle"
    /\ nt_pc' = [nt_pc EXCEPT ![p] = "done"]
    /\ nt_res' = [nt_res EXCEPT ![p] = "err"]
    /\ UNCHANGED <<cvars, n_sub, n_buffer, n_callReturned, n_activated, n_mu,
                   nt_id, lockOrder, c_res, h_pc, a_pc, a_i, a_res,
                   h_panic>>

\* Notifier.Notify(id, p): the payload is encoded and n.mu.Lock() returns.
NotifyLock(p, id) ==
    /\ Alive
    /\ nt_pc[p] = "idle"
    /\ n_mu = 0
    /\ n_mu' = p
    /\ nt_pc' = [nt_pc EXCEPT ![p] = "locked"]
    /\ nt_id' = [nt_id EXCEPT ![p] = id]
    /\ lockOrder' = Append(lockOrder, p)
    /\ UNCHANGED <<cvars, n_sub, n_buffer, n_callReturned, n_activated,
                   nt_res, c_res, h_pc, a_pc, a_i, a_res,
                   h_panic>>

\* Notifier.Notify holding n.mu: the contract checks, then send or buffer;
\* the deferred Unlock runs on every path.
NotifyBody(p) ==
    /\ Alive
    /\ nt_pc[p] = "locked"
    /\ n_mu = p
    /\ n_mu' = 0
    /\ nt_pc' = [nt_pc EXCEPT ![p] = "done"]
    /\ IF n_sub = NoSub \/ n_sub # nt_id[p]
          THEN /\ nt_res' = [nt_res EXCEPT ![p] = "panic"]
               /\ \E g \in Goroutines : h_panic' = call(g)
               /\ UNCHANGED <<wire, n_buffer>>
          ELSE IF NotifyBranch(n_activated) = "send"
          THEN /\ wire' = writeJSON(wire, send(n_sub, p))
               /\ nt_res' = [nt_res EXCEPT ![p] = IF connOk THEN "ok" ELSE "err"]
               /\ UNCHANGED <<n_buffer, h_panic>>
          ELSE /\ n_buffer' = BufferAppend(n_buffer, p)
               /\ nt_res' = [nt_res EXCEPT ![p] = "ok"]
               /\ UNCHANGED <<wire, h_panic>>
    /\ UNCHANGED <<connOk, n_sub, n_callReturned, n_activated, nt_id,
                   lockOrder, c_res, h_pc, a_pc, a_i, a_res>>

\* Notifier.takeSubscription, called through handler.addSubscriptions when
\* the subscribe call has returned.
takeSubscription ==
    /\ Alive
    /\ h_pc = "running"
    /\ n_mu = 0
    /\ n_callReturned' = TRUE
    /\ h_pc' = "returned"
    /\ UNCHANGED <<cvars, n_sub, n_buffer, n_activated, n_mu, nt_pc, nt_id,
                   nt_res, lockOrder, c_res, a_pc, a_i, a_res,
                   h_panic>>

\* The session handler writes the subscribe call's response, carrying the
\* subscription id, or the error callback.call returned for a panic.
SubscribeRespond ==
    /\ Alive
    /\ h_pc = "returned"
    /\ h_pc' = "responded"
    /\ wire' = writeJSON(wire, [kind |-> "response", Version |-> vsn,
                                ID |-> <<"1">>,
                                Error |-> IF h_panic.g = "call"
                                             THEN h_panic.res ELSE Nil,
                                Result |-> IF h_panic.g = "call"
                                              THEN Nil ELSE n_sub])
    /\ UNCHANGED <<connOk, n_sub, n_buffer, n_callReturned, n_activated, n_mu,
                   nt_pc, nt_id, nt_res, lockOrder, c_res, a_pc, a_i, a_res,
                   h_panic>>

\* Notifier.activate: n.mu.Lock() returns.
ActivateLock ==
    /\ Alive
    /\ h_pc = "responded"
    /\ a_pc = "idle"
    /\ n_mu = 0
    /\ n_mu' = -1
    /\ a_pc' = "flush"
    /\ UNCHANGED <<cvars, n_sub, n_buffer, n_callReturned, n_activated, nt_pc,
                   nt_id, nt_res, lockOrder, c_res, h_pc, a_i, a_res,
                   h_panic>>

\* an activate that goes on to the next payload after a failed write
flushOnAlways(ok) == TRUE
\* Notifier.activate: the loop goes on after n.send unless it failed
flushOn(ok) == ok

\* Notifier.activate: one iteration of the loop over n.buffer; a failed
\* write returns the error (the deferred Unlock runs).
ActivateSend ==
    /\ Alive
    /\ a_pc = "flush"
    /\ a_i < Len(n_buffer)
    /\ wire' = writeJSON(wire, send(n_sub, n_buffer[a_i + 1]))
    /\ IF flushOn(connOk)
          THEN /\ a_i' = a_i + 1
               /\ UNCHANGED <<a_pc, a_res, n_mu>>
          ELSE /\ a_pc' = "done"
               /\ a_res' = "err"
               /\ n_mu' = 0
               /\ UNCHANGED a_i
    /\ UNCHANGED <<connOk, n_sub, n_buffer, n_callReturned, n_activated,
                   nt_pc, nt_id, nt_res, lockOrder, c_res, h_pc,
                   h_panic>>

\* Notifier.activate: the loop is over; n.activated = true, return nil.
ActivateDone ==
    /\ Alive
    /\ a_pc = "flush"
    /\ a_i = Len(n_buffer)
    /\ n_activated' = TRUE
    /\ a_pc' = "done"
    /\ a_res' = "ok"
    /\ n_mu' = 0
    /\ UNCHANGED <<cvars, n_sub, n_buffer, n_callReturned, nt_pc, nt_id,
                   nt_res, lockOrder, c_res, h_pc, a_i,
                   h_panic>>

\* The peer goes away: every later writeJSON fails.
ConnBreak ==
    /\ connOk
    /\ connOk' = FALSE
    /\ UNCHANGED wire

InitConn == wire = <<>> /\ connOk = TRUE

InitN ==
    InitConn /\ InitNotifier /\ InitBatchIdle /\ InitServeIdle /\ InitClientSub
    /\ InitHandler /\ InitLater

\* the Notifier's specification leaves the other components alone
NotifierOnly == UNCHANGED <<bvars, svars, uvars, hvars, lvars>>

NextN ==
    \/ CreateSubscription /\ NotifierOnly
    \/ \E p \in NProcs : NotifyMarshalErr(p) /\ NotifierOnly
    \/ \E p \in NProcs, id \in {NewSubID, OtherSubID} :
          NotifyLock(p, id) /\ NotifierOnly
    \/ \E p \in NProcs : NotifyBody(p) /\ NotifierOnly
    \/ takeSubscription /\ NotifierOnly
    \/ SubscribeRespond /\ NotifierOnly
    \/ ActivateLock /\ NotifierOnly
    \/ ActivateSend /\ NotifierOnly
    \/ ActivateDone /\ NotifierOnly
    \/ ConnBreak /\ UNCHANGED nvars /\ NotifierOnly

SpecNotifier == InitN /\ [][NextN]_vars

\* ------------------------------------------------- claims on the Notifier
Notifs(w) == SelectSeq(w, LAMBDA m : m.kind = "notification")
Payloads(s) == [i \in 1..Len(s) |-> s[i].Params.result]
\* the Notify calls that returned nil, in the order they took n.mu
Accepted == SelectSeq(lockOrder, LAMBDA p : nt_res[p] = "ok")
\* the buffered payloads activate() has not written
Unflushed ==
    IF n_activated THEN <<>> ELSE SubSeq(n_buffer, a_i + 1, Len(n_buffer))

BatchIDs == {<<"1">>, <<"2">>}
BatchMsgs ==
    {Message(vsn, id, "svc_echo", Nil, Nil, Nil) : id \in BatchIDs}
        \cup {Message(vsn, NilID, "svc_echo", Nil, Nil, Nil)}
RECURSIVE SeqsUpTo(_, _)
SeqsUpTo(S, n) ==
    IF n = 0 THEN {<<>>}
    ELSE LET shorter == SeqsUpTo(S, n - 1)
         IN  shorter \cup {Append(q, x) : q \in shorter, x \in S}

timeoutError == "request timed out"

\* handler.handleCallMsg: the answer of a call's handler, nil for a
\* notification whatever its handler did.
handleCallMsg(msg, outcome) ==
    IF isNotification(msg) THEN NilMsg
    ELSE IF ~isCall(msg) THEN errResponse(msg, "invalid request")
    ELSE IF outcome = "fail" THEN errResponse(msg, "handler error")
    ELSE response(msg, outcome)

\* batchCallBuffer.nextCall: the first unprocessed message, not popped.
nextCall(calls) == IF Len(calls) = 0 THEN NilMsg ELSE calls[1]

\* batchCallBuffer.pushResponse: the new resp and the new calls.
pushResponse(resp, calls, answer) ==
    [resp |-> IF answer # NilMsg THEN Append(resp, answer) ELSE resp,
     calls |-> Tail(calls)]

\* timeout's loop without the isNotification test
RECURSIVE timeoutRespAll(_, _)
timeoutRespAll(resp, calls) ==
    IF calls = <<>> THEN resp
    ELSE timeoutRespAll(Append(resp, errResponse(calls[1], timeoutError)),
                        Tail(calls))
\* timeout's loop leaving out the call in flight, calls[0]
timeoutRespSkipFirst(resp, calls) ==
    IF calls = <<>> THEN resp
    ELSE LET rest == SelectSeq(Tail(calls), LAMBDA m : ~isNotification(m))
         IN  resp \o [i \in 1..Len(rest) |->
                         errResponse(rest[i], timeoutError)]
\* batchCallBuffer.timeout, the loop: resp with a timeout error appended
\* for every remaining message that is not a notification.
RECURSIVE timeoutResp(_, _)
timeoutResp(resp, calls) ==
    IF calls = <<>> THEN resp
    ELSE timeoutResp(IF ~isNotification(calls[1])
                        THEN Append(resp, errResponse(calls[1], timeoutError))
                        ELSE resp,
                     Tail(calls))

\* doWrite without the test of wrote
doWriteAgain(wrote, resp, w, isErrorResponse) ==
    [wrote |-> TRUE,
     wire |-> IF Len(resp) > 0
                 THEN writeJSON(w, [kind |-> "batch", msgs |-> resp,
                                    isError |-> isErrorResponse])
                 ELSE w]
\* doWrite without the test of len(b.resp)
doWriteEmpty(wrote, resp, w, isErrorResponse) ==
    IF wrote THEN [wrote |-> wrote, wire |-> w]
    ELSE [wrote |-> TRUE,
          wire |-> writeJSON(w, [kind |-> "batch", msgs |-> resp,
                                 isError |-> isErrorResponse])]
\* batchCallBuffer.doWrite: the new wrote and the new wire.
doWrite(wrote, resp, w, isErrorResponse) ==
    IF wrote THEN [wrote |-> wrote, wire |-> w]
    ELSE [wrote |-> TRUE,
          wire |-> IF Len(resp) > 0
                      THEN writeJSON(w, [kind |-> "batch", msgs |-> resp,
                                         isError |-> isErrorResponse])
                      ELSE w]

InitBatch ==
    /\ origCalls \in SeqsUpTo(BatchMsgs, MaxBatch)
    /\ b_calls = origCalls
    /\ b_resp = <<>>
    /\ b_wrote = FALSE
    /\ p_pc = "next"
    /\ p_msg = NilMsg
    /\ pushLog = <<>>
    /\ t_pc = "armed"
    /\ t_done = 0
    /\ t_wrote = FALSE

\* the processing task asks for the next message; none left: go and write
ProcNext ==
    /\ p_pc = "next"
    /\ p_msg' = nextCall(b_calls)
    /\ p_pc' = IF nextCall(b_calls) = NilMsg THEN "write" ELSE "run"
    /\ UNCHANGED <<cvars, b_calls, b_resp, b_wrote, origCalls, pushLog, t_pc,
                   t_done, t_wrote>>

\* the processing task stops asking once the deadline has cancelled it
ProcCancelled ==
    /\ p_pc = "next"
    /\ t_pc = "fired"
    /\ p_pc' = "write"
    /\ UNCHANGED <<cvars, b_calls, b_resp, b_wrote, origCalls, p_msg, pushLog,
                   t_pc, t_done, t_wrote>>

\* the handler of the current message ends and its answer is pushed
ProcPush(outcome) ==
    /\ p_pc = "run"
    /\ LET answer == handleCallMsg(p_msg, outcome)
           new == pushResponse(b_resp, b_calls, answer)
       IN  /\ b_resp' = new.resp
           /\ b_calls' = new.calls
           /\ pushLog' = Append(pushLog, answer)
    /\ p_pc' = "next"
    /\ UNCHANGED <<cvars, b_wrote, origCalls, p_msg, t_pc, t_done, t_wrote>>

\* the processing task writes the batch: doWrite under b.mutex
ProcWrite ==
    /\ p_pc = "write"
    /\ LET new == doWrite(b_wrote, b_resp, wire, FALSE)
       IN  /\ b_wrote' = new.wrote
           /\ wire' = new.wire
    /\ p_pc' = "done"
    /\ UNCHANGED <<connOk, b_calls, b_resp, origCalls, p_msg, pushLog, t_pc,
                   t_done, t_wrote>>

\* batchCallBuffer.timeout, run by the deadline's timer
timeout ==
    /\ t_pc = "armed"
    /\ t_pc' = "fired"
    /\ t_done' = Len(pushLog)
    /\ t_wrote' = b_wrote
    /\ b_resp' = timeoutResp(b_resp, b_calls)
    /\ LET new == doWrite(b_wrote, b_resp', wire, TRUE)
       IN  /\ b_wrote' = new.wrote
           /\ wire' = new.wire
    /\ UNCHANGED <<connOk, b_calls, origCalls, p_pc, p_msg, pushLog>>

InitB ==
    InitConn /\ InitNotifier /\ InitBatch /\ InitServeIdle /\ InitClientSub
    /\ InitHandler /\ InitLater

\* the batch's specification leaves the other components alone
BatchOnly == UNCHANGED <<nvars, svars, uvars, hvars, lvars>>

NextB ==
    \/ ProcNext /\ BatchOnly
    \/ ProcCancelled /\ BatchOnly
    \/ \E outcome \in {"ok", "fail", "unmarshalable"} :
          ProcPush(outcome) /\ BatchOnly
    \/ ProcWrite /\ BatchOnly
    \/ timeout /\ BatchOnly
    \/ ConnBreak /\ UNCHANGED bvars /\ BatchOnly

SpecBatch == InitB /\ [][NextB]_vars

\* ------------------------------------------ claims on the batchCallBuffer
NonNil(s) == SelectSeq(s, LAMBDA a : a # NilMsg)
NotNotification(m) == ~isNotification(m)
BatchWrites == SelectSeq(wire, LAMBDA w : w.kind = "batch")

\* C4: no response entry is ever produced for a notification: every entry
\* of resp and of a written batch carries the id of one of the batch's
\* calls, and a written batch has no more entries than the batch has calls.
C4_NoNotificationResponse ==
    /\ \A i \in 1..Len(b_resp) :
          /\ b_resp[i].ID # NilID
          /\ \E k \in 1..Len(origCalls) :
                isCall(origCalls[k]) /\ origCalls[k].ID = b_resp[i].ID
    /\ \A i \in 1..Len(wire) :
          /\ Len(wire[i].msgs) <= Len(SelectSeq(origCalls, isCall))
          /\ \A j \in 1..Len(wire[i].msgs) : wire[i].msgs[j].ID # NilID

\* C4 witness: the deadline fired on a batch with one notification already
\* handled and another still pending, and the batch was written.
C4_Witness ==
    /\ t_pc = "fired" /\ ~t_wrote /\ wire # <<>>
    /\ \E i \in 1..t_done : isNotification(origCalls[i])
    /\ \E j \in (t_done + 1)..Len(origCalls) : isNotification(origCalls[j])

\* C6: the connection is written at most once for one buffer, and nothing
\* reaches the wire once wrote is set.
C6_WriteOnce ==
    [][(b_wrote => wire' = wire) /\ Len(BatchWrites') <= 1]_vars

\* C6 witness: the deadline wrote the batch, a response was pushed after
\* that, the processing task ran its own doWrite, and one write stands.
C6_Witness ==
    /\ t_pc = "fired" /\ ~t_wrote
    /\ p_pc = "done"
    /\ Len(pushLog) > t_done
    /\ pushLog[t_done + 1] # NilMsg
    /\ Len(wire) = 1

\* C7: when the deadline fires before the batch was written, the batch on
\* the wire is the responses pushed until then followed by one timeout
\* error, with its id, for every entry not yet answered that is not a
\* notification.
C7_TimeoutBatch ==
    (t_pc = "fired" /\ ~t_wrote) =>
        LET ready == NonNil(SubSeq(pushLog, 1, t_done))
            pending == SelectSeq(SubSeq(origCalls, t_done + 1, Len(origCalls)),
                                 NotNotification)
            expected == ready \o [i \in 1..Len(pending) |->
                                     errResponse(pending[i], timeoutError)]
        IN  /\ wire # <<>> =>
                 /\ Len(wire) = 1
                 /\ wire[1].msgs = expected
                 /\ wire[1].isError
            /\ (connOk /\ expected # <<>>) => wire # <<>>

\* C7 witness: the deadline fired with one response pushed, one call in
\* flight and the batch written.
C7_Witness ==
    /\ t_pc = "fired" /\ ~t_wrote
    /\ t_done >= 1 /\ pushLog[1] # NilMsg
    /\ t_done < Len(origCalls)
    /\ isCall(origCalls[t_done + 1])
    /\ Len(wire) = 1 /\ Len(wire[1].msgs) >= 2

\* C9: a write with an empty response list does not touch the connection
\* and still sets wrote, on completion and on timeout; a batch of
\* notifications only is never written.
C9_EmptyBatchNotWritten ==
    /\ \A i \in 1..Len(wire) : Len(wire[i].msgs) > 0
    /\ (p_pc = "done" \/ t_pc = "fired") => b_wrote
    /\ (\A k \in 1..Len(origCalls) : isNotification(origCalls[k])) =>
          wire = <<>>

\* C9 witness: a batch of two notifications was processed to the end and
\* its deadline fired too: wrote is set and nothing was written.
C9_Witness ==
    /\ Len(origCalls) >= 2
    /\ \A k \in 1..Len(origCalls) : isNotification(origCalls[k])
    /\ p_pc = "done" /\ t_pc = "fired" /\ b_wrote /\ connOk
    /\ Len(pushLog) = Len(origCalls)
    /\ wire = <<>>

\* ------------------------------- Server.serveSingleRequest and the handler
\* the methods NewServer registers: the metadata service's rpc_modules
Registered == {"rpc_modules"}
ServeMsgs ==
    {Message(vsn, id, m, Nil, Nil, Nil) :
        id \in BatchIDs \cup {NilID}, m \in {"rpc_modules", "svc_unknown"}}

\* errorMessage(err): an error response whose id is null
errorMessage(err) == Message(vsn, <<"n", "u", "l", "l">>, "", Nil, err, Nil)

InitServe ==
    /\ s_run \in {0, 1}
    /\ s_pc = "start"
    /\ s_reqs = <<>>
    /\ s_batch = FALSE
    /\ s_err = "nil"

\* serveSingleRequest: nothing is served once the server is stopped;
\* otherwise the handler is created.
ServeStart ==
    /\ s_pc = "start"
    /\ s_pc' = IF s_run = 0 THEN "returned" ELSE "read"
    /\ UNCHANGED <<cvars, s_run, s_reqs, s_batch, s_err>>

\* codec.readBatch(): one message, or a batch of any length, or an error
ServeRead(reqs, batch, err) ==
    /\ s_pc = "read"
    /\ err = "nil" => (batch \/ Len(reqs) = 1)
    /\ err # "nil" => (reqs = <<>> /\ ~batch)
    /\ s_reqs' = reqs
    /\ s_batch' = batch
    /\ s_err' = err
    /\ s_pc' = "dispatch"
    /\ UNCHANGED <<cvars, s_run>>

\* serveSingleRequest: readBatch failed; anything but EOF is answered with
\* a parse error.
ServeReadError ==
    /\ s_pc = "dispatch"
    /\ s_err # "nil"
    /\ wire' = IF s_err # "EOF"
                  THEN writeJSON(wire, [kind |-> "message",
                                        msg |-> errorMessage("parse error"),
                                        isError |-> TRUE])
                  ELSE wire
    /\ s_pc' = "closing"
    /\ UNCHANGED <<connOk, s_run, s_reqs, s_batch, s_err>>

\* handler.handleBatch(msgs): the body tests for the empty batch and does
\* nothing in either case.
handleBatch(msgs) ==
    /\ IF Len(msgs) = 0 THEN UNCHANGED wire ELSE UNCHANGED wire
    /\ UNCHANGED connOk

\* handler.handleMsg(msg): the body is empty.
handleMsg(msg) == UNCHANGED <<wire, connOk>>

ServeBatch ==
    /\ s_pc = "dispatch"
    /\ s_err = "nil"
    /\ s_batch
    /\ handleBatch(s_reqs)
    /\ s_pc' = "closing"
    /\ UNCHANGED <<s_run, s_reqs, s_batch, s_err>>

ServeMsg ==
    /\ s_pc = "dispatch"
    /\ s_err = "nil"
    /\ ~s_batch
    /\ handleMsg(s_reqs[1])
    /\ s_pc' = "closing"
    /\ UNCHANGED <<s_run, s_reqs, s_batch, s_err>>

\* the deferred handler.close(io.EOF, nil): no request is pending, no call
\* task is in flight (none was started) and no subscription exists.
ServeClose ==
    /\ s_pc = "closing"
    /\ s_pc' = "returned"
    /\ UNCHANGED <<cvars, s_run, s_reqs, s_batch, s_err>>

InitS ==
    InitConn /\ InitNotifier /\ InitBatchIdle /\ InitServe /\ InitClientSub
    /\ InitHandler /\ InitLater

\* the server's specification leaves the other components alone
ServeOnly == UNCHANGED <<nvars, bvars, uvars, hvars, lvars>>

NextS ==
    \/ ServeStart /\ ServeOnly
    \/ \E reqs \in SeqsUpTo(ServeMsgs, MaxBatch), batch \in BOOLEAN,
          err \in {"nil", "EOF", "parse"} :
          ServeRead(reqs, batch, err) /\ ServeOnly
    \/ ServeReadError /\ ServeOnly
    \/ ServeBatch /\ ServeOnly
    \/ ServeMsg /\ ServeOnly
    \/ ServeClose /\ ServeOnly
    \/ ConnBreak /\ UNCHANGED svars /\ ServeOnly

SpecServe == InitS /\ [][NextS]_vars

\* ---------------------------------------- claims on handleMsg, handleBatch
\* the request was served to the end on a working connection
Served == s_pc = "returned" /\ s_run = 1 /\ s_err = "nil" /\ connOk
IDCount(msgs, id) == Len(SelectSeq(msgs, LAMBDA m : m.ID = id))

\* C3: a well-formed call of a registered method handed to handleMsg is
\* answered by exactly one response on the connection, carrying its id.
C3_CallAnswered ==
    (/\ Served
     /\ ~s_batch
     /\ isCall(s_reqs[1])
     /\ s_reqs[1].Method \in Registered) =>
        /\ Len(wire) = 1
        /\ wire[1].kind = "message"
        /\ isResponse(wire[1].msg)
        /\ wire[1].msg.ID = s_reqs[1].ID

\* C5: a batch of N calls handed to handleBatch is answered by one batch
\* write of N responses whose ids are a permutation of the calls' ids.
C5_BatchAnswered ==
    (/\ Served
     /\ s_batch
     /\ Len(s_reqs) >= 1
     /\ \A i \in 1..Len(s_reqs) : isCall(s_reqs[i])) =>
        /\ Len(wire) = 1
        /\ wire[1].kind = "batch"
        /\ Len(wire[1].msgs) = Len(s_reqs)
        /\ \A id \in BatchIDs :
              IDCount(wire[1].msgs, id) = IDCount(s_reqs, id)

\* C8: an empty batch handed to handleBatch is answered by exactly one
\* "invalid request" error response.
C8_EmptyBatchRejected ==
    (/\ Served
     /\ s_batch
     /\ s_reqs = <<>>) =>
        /\ Len(wire) = 1
        /\ wire[1].kind = "message"
        /\ wire[1].msg.Error = "invalid request"

\* ---------------------------------------------------- ClientSubscription
errUnsubscribed == "errUnsubscribed"
ErrSubscriptionQueueOverflow == "subscription queue overflow"

\* forward dropping the error a quit carries
forwardQuitNil(err) == [unsub |-> err = errUnsubscribed, err |-> "nil"]

\* forward asking for the server-side unsubscribe on every quit
forwardQuitAlways(err) ==
    IF err = errUnsubscribed THEN [unsub |-> TRUE, err |-> "nil"]
    ELSE [unsub |-> TRUE, err |-> err]

\* ClientSubscription.forward, case 0: what it returns for the value
\* received on sub.quit.
forwardQuit(err) ==
    IF err = errUnsubscribed THEN [unsub |-> TRUE, err |-> "nil"]
    ELSE [unsub |-> FALSE, err |-> err]

\* forward putting a new value in front of the queue
forwardInFront(buffer, val, bad) ==
    IF bad THEN [ret |-> TRUE, unsub |-> TRUE, err |-> "unmarshal error",
                 buffer |-> buffer]
    ELSE IF Len(buffer) = maxClientSubscriptionBuffer
    THEN [ret |-> TRUE, unsub |-> TRUE, err |-> ErrSubscriptionQueueOverflow,
          buffer |-> buffer]
    ELSE [ret |-> FALSE, unsub |-> FALSE, err |-> "nil",
          buffer |-> <<val>> \o buffer]

\* forward with the ceiling tested one event late
forwardInLate(buffer, val, bad) ==
    IF bad THEN [ret |-> TRUE, unsub |-> TRUE, err |-> "unmarshal error",
                 buffer |-> buffer]
    ELSE IF Len(buffer) > maxClientSubscriptionBuffer
    THEN [ret |-> TRUE, unsub |-> TRUE, err |-> ErrSubscriptionQueueOverflow,
          buffer |-> buffer]
    ELSE [ret |-> FALSE, unsub |-> FALSE, err |-> "nil",
          buffer |-> Append(buffer, val)]

\* ClientSubscription.forward, case 1: a notification arrived on sub.in.
\* Either the loop goes on with the value queued, or forward returns.
forwardIn(buffer, val, bad) ==
    IF bad THEN [ret |-> TRUE, unsub |-> TRUE, err |-> "unmarshal error",
                 buffer |-> buffer]
    ELSE IF Len(buffer) = maxClientSubscriptionBuffer
    THEN [ret |-> TRUE, unsub |-> TRUE, err |-> ErrSubscriptionQueueOverflow,
          buffer |-> buffer]
    ELSE [ret |-> FALSE, unsub |-> FALSE, err |-> "nil",
          buffer |-> Append(buffer, val)]

\* handler.handleResponse: go op.sub.run()
RunStart ==
    /\ r_pc = "idle"
    /\ r_pc' = "forward"
    /\ UNCHANGED <<once_done, once_mu, u_pc, f_unsub, f_err, f_buffer,
                   forwardDone, unsubDone, e_closes, q_unsub, d_n, d_closed,
                   got, errSeen, unsubReq,
                   cause>>

\* Unsubscribe without the Once: every call runs the function.
UnsubscribeNoOnce(u) ==
    /\ u_pc[u] = "idle"
    /\ u_pc' = [u_pc EXCEPT ![u] = "select"]
    /\ UNCHANGED <<once_done, once_mu, r_pc, f_unsub, f_err, f_buffer,
                   forwardDone, unsubDone, e_closes, q_unsub, d_n, d_closed,
                   got, errSeen, unsubReq,
                   cause>>

\* ClientSubscription.Unsubscribe: sub.errOnce.Do, the check of done; a
\* call that finds the function already run returns.
UnsubscribeCall(u) ==
    /\ u_pc[u] = "idle"
    /\ u_pc' = [u_pc EXCEPT ![u] = IF once_done THEN "returned" ELSE "slow"]
    /\ UNCHANGED <<once_done, once_mu, r_pc, f_unsub, f_err, f_buffer,
                   forwardDone, unsubDone, e_closes, q_unsub, d_n, d_closed,
                   got, errSeen, unsubReq,
                   cause>>

\* sub.errOnce.Do: the Once's mutex is taken and done is checked again;
\* the first call goes on to run the function holding the mutex.
UnsubscribeOnceLock(u) ==
    /\ u_pc[u] = "slow"
    /\ once_mu = 0
    /\ IF once_done
          THEN /\ u_pc' = [u_pc EXCEPT ![u] = "returned"]
               /\ UNCHANGED once_mu
          ELSE /\ u_pc' = [u_pc EXCEPT ![u] = "select"]
               /\ once_mu' = u
    /\ UNCHANGED <<once_done, r_pc, f_unsub, f_err, f_buffer, forwardDone,
                   unsubDone, e_closes, q_unsub, d_n, d_closed, got, errSeen,
                   unsubReq,
                   cause>>

\* Unsubscribe's select, case sub.quit <- errUnsubscribed: the forwarding
\* loop receives it and forward returns.
UnsubscribeSendQuit(u) ==
    /\ u_pc[u] = "select"
    /\ r_pc = "forward"
    /\ u_pc' = [u_pc EXCEPT ![u] = "waitDone"]
    /\ q_unsub' = q_unsub + 1
    /\ r_pc' = "fwdReturned"
    /\ f_unsub' = forwardQuit(errUnsubscribed).unsub
    /\ f_err' = forwardQuit(errUnsubscribed).err
    /\ cause' = Ended("unsubscribe", errUnsubscribed)
    /\ UNCHANGED <<once_done, once_mu, f_buffer, forwardDone, unsubDone,
                   e_closes, d_n, d_closed, got, errSeen, unsubReq>>

\* Unsubscribe that does not wait for sub.unsubDone once the quit was sent
UnsubscribeNoWait(u) ==
    /\ u_pc[u] \in {"select", "waitDone"}
    /\ unsubDone \/ u_pc[u] = "waitDone"
    /\ u_pc' = [u_pc EXCEPT ![u] = "closeErr"]
    /\ UNCHANGED <<once_done, once_mu, r_pc, f_unsub, f_err, f_buffer,
                   forwardDone, unsubDone, e_closes, q_unsub, d_n, d_closed,
                   got, errSeen, unsubReq,
                   cause>>

\* Unsubscribe: <-sub.unsubDone, in the select or after the quit was sent
UnsubscribeSeeDone(u) ==
    /\ u_pc[u] \in {"select", "waitDone"}
    /\ unsubDone
    /\ u_pc' = [u_pc EXCEPT ![u] = "closeErr"]
    /\ UNCHANGED <<once_done, once_mu, r_pc, f_unsub, f_err, f_buffer,
                   forwardDone, unsubDone, e_closes, q_unsub, d_n, d_closed,
                   got, errSeen, unsubReq,
                   cause>>

\* Unsubscribe: close(sub.err), which faults on a closed channel; the Once
\* then records that the function ran and releases its mutex.
UnsubscribeCloseErr(u) ==
    /\ u_pc[u] = "closeErr"
    /\ u_pc' = [u_pc EXCEPT ![u] = IF e_closes > 0 THEN "panic" ELSE "returned"]
    /\ e_closes' = e_closes + 1
    /\ once_done' = TRUE
    /\ once_mu' = 0
    /\ UNCHANGED <<r_pc, f_unsub, f_err, f_buffer, forwardDone, unsubDone,
                   q_unsub, d_n, d_closed, got, errSeen, unsubReq,
                   cause>>

\* a forwarding loop that takes from sub.in only while its queue is empty
deliverIdleOnly(bad) ==
    /\ d_n < d_last
    /\ ~d_closed
    /\ (r_pc = "forward" /\ f_buffer = <<>>) \/ forwardDone
    /\ d_n' = d_n + 1
    /\ IF r_pc = "forward"
          THEN LET new == forwardIn(f_buffer, d_n + 1, bad)
               IN  /\ f_buffer' = new.buffer
                   /\ r_pc' = IF new.ret THEN "fwdReturned" ELSE "forward"
                   /\ f_unsub' = new.unsub
                   /\ f_err' = new.err
                   /\ cause' = IF bad THEN Ended("undecodable", "nil")
                               ELSE IF new.ret THEN Ended("overflow", "nil")
                               ELSE cause
          ELSE UNCHANGED <<f_buffer, r_pc, f_unsub, f_err, cause>>
    /\ UNCHANGED <<once_done, once_mu, u_pc, forwardDone, unsubDone, e_closes,
                   q_unsub, d_closed, got, errSeen, unsubReq>>

\* ClientSubscription.deliver by the client's dispatcher: the forwarding
\* loop takes the value from sub.in, or forwardDone is closed.
deliver(bad) ==
    /\ d_n < d_last
    /\ ~d_closed
    /\ r_pc = "forward" \/ forwardDone
    /\ d_n' = d_n + 1
    /\ IF r_pc = "forward"
          THEN LET new == forwardIn(f_buffer, d_n + 1, bad)
               IN  /\ f_buffer' = new.buffer
                   /\ r_pc' = IF new.ret THEN "fwdReturned" ELSE "forward"
                   /\ f_unsub' = new.unsub
                   /\ f_err' = new.err
                   /\ cause' = IF bad THEN Ended("undecodable", "nil")
                               ELSE IF new.ret THEN Ended("overflow", "nil")
                               ELSE cause
          ELSE UNCHANGED <<f_buffer, r_pc, f_unsub, f_err, cause>>
    /\ UNCHANGED <<once_done, once_mu, u_pc, forwardDone, unsubDone, e_closes,
                   q_unsub, d_closed, got, errSeen, unsubReq>>

\* ClientSubscription.close(err) by the client's dispatcher: the
\* forwarding loop takes err from sub.quit, or forwardDone is closed.
close(err) ==
    /\ ~d_closed
    /\ r_pc = "forward" \/ forwardDone
    /\ d_closed' = TRUE
    /\ IF r_pc = "forward"
          THEN /\ r_pc' = "fwdReturned"
               /\ f_unsub' = forwardQuit(err).unsub
               /\ f_err' = forwardQuit(err).err
          ELSE UNCHANGED <<r_pc, f_unsub, f_err>>
    /\ cause' = IF r_pc = "forward" THEN Ended("quit", err) ELSE cause
    /\ UNCHANGED <<once_done, once_mu, u_pc, f_buffer, forwardDone, unsubDone,
                   e_closes, q_unsub, d_n, got, errSeen, unsubReq>>

\* forward, case 2: the consumer receives the first queued value (it
\* takes up to MaxEvents values)
ForwardSend ==
    /\ r_pc = "forward"
    /\ f_buffer # <<>>
    /\ Len(got) < MaxEvents
    /\ got' = Append(got, Head(f_buffer))
    /\ f_buffer' = Tail(f_buffer)
    /\ UNCHANGED <<once_done, once_mu, u_pc, r_pc, f_unsub, f_err,
                   forwardDone, unsubDone, e_closes, q_unsub, d_n, d_closed,
                   errSeen, unsubReq,
                   cause>>

\* run: forward has returned; close(sub.forwardDone)
RunCloseForwardDone ==
    /\ r_pc = "fwdReturned"
    /\ forwardDone' = TRUE
    /\ r_pc' = "unsub"
    /\ UNCHANGED <<once_done, once_mu, u_pc, f_unsub, f_err, f_buffer,
                   unsubDone, e_closes, q_unsub, d_n, d_closed, got, errSeen,
                   unsubReq,
                   cause>>

\* run: requestUnsubscribe if forward asked for it; with no error to send
\* run returns and its deferred close(sub.unsubDone) runs.
RunRequestUnsubscribe ==
    /\ r_pc = "unsub"
    /\ unsubReq' = IF f_unsub THEN unsubReq + 1 ELSE unsubReq
    /\ IF f_err # "nil"
          THEN r_pc' = "sendErr" /\ UNCHANGED unsubDone
          ELSE r_pc' = "done" /\ unsubDone' = TRUE
    /\ UNCHANGED <<once_done, once_mu, u_pc, f_unsub, f_err, f_buffer,
                   forwardDone, e_closes, q_unsub, d_n, d_closed, got,
                   errSeen,
                   cause>>

\* run: sub.err <- err, taken by a reader of Err() (ErrClientQuit is sent
\* as nil); a send on a closed channel faults.  Then close(sub.unsubDone).
RunSendErr ==
    /\ r_pc = "sendErr"
    /\ IF e_closes > 0
          THEN r_pc' = "panic" /\ UNCHANGED errSeen
          ELSE /\ r_pc' = "done"
               /\ errSeen' = Append(errSeen, IF f_err = "ErrClientQuit"
                                                THEN "nil" ELSE f_err)
    /\ unsubDone' = TRUE
    /\ UNCHANGED <<once_done, once_mu, u_pc, f_unsub, f_err, f_buffer,
                   forwardDone, e_closes, q_unsub, d_n, d_closed, got,
                   unsubReq,
                   cause>>

\* A consumer's receive from sub.Err() once the channel is closed: it
\* yields no value ("closed").  One such read is recorded; a receive from
\* the open channel is the other side of run's send (RunSendErr).
ErrRead ==
    /\ e_closes > 0
    /\ \A i \in 1..Len(errSeen) : errSeen[i] # "closed"
    /\ errSeen' = Append(errSeen, "closed")
    /\ UNCHANGED <<once_done, once_mu, u_pc, r_pc, f_unsub, f_err, f_buffer,
                   forwardDone, unsubDone, e_closes, q_unsub, d_n, d_closed,
                   got, unsubReq,
                   cause>>

InitU ==
    InitConn /\ InitNotifier /\ InitBatchIdle /\ InitServeIdle /\ InitClientSub
    /\ InitHandler /\ InitLater

\* the subscription's specification leaves the other components alone,
\* and the dispatcher's supply of events is fixed
ClientSubOnly == UNCHANGED <<cvars, nvars, bvars, svars, hvars, d_last, lvars>>

NextU ==
    \/ RunStart /\ ClientSubOnly
    \/ \E u \in UProcs : UnsubscribeCall(u) /\ ClientSubOnly
    \/ \E u \in UProcs : UnsubscribeOnceLock(u) /\ ClientSubOnly
    \/ \E u \in UProcs : UnsubscribeSendQuit(u) /\ ClientSubOnly
    \/ \E u \in UProcs : UnsubscribeSeeDone(u) /\ ClientSubOnly
    \/ \E u \in UProcs : UnsubscribeCloseErr(u) /\ ClientSubOnly
    \/ \E bad \in BOOLEAN : deliver(bad) /\ ClientSubOnly
    \/ \E err \in {"nil", "ErrClientQuit", "connection lost"} :
          close(err) /\ ClientSubOnly
    \/ ForwardSend /\ ClientSubOnly
    \/ RunCloseForwardDone /\ ClientSubOnly
    \/ RunRequestUnsubscribe /\ ClientSubOnly
    \/ RunSendErr /\ ClientSubOnly
    \/ ErrRead /\ ClientSubOnly

SpecClientSub == InitU /\ [][NextU]_vars

\* A subscription whose consumer has taken nothing while the dispatcher
\* delivered k events: run is in forward's loop with all k queued.  The
\* dispatcher has MaxEvents more.
InitFull(k) ==
    /\ once_done = FALSE /\ once_mu = 0
    /\ u_pc = [u \in UProcs |-> "idle"]
    /\ r_pc = "forward"
    /\ f_unsub = FALSE /\ f_err = "nil"
    /\ f_buffer = [i \in 1..k |-> i]
    /\ forwardDone = FALSE /\ unsubDone = FALSE
    /\ e_closes = 0 /\ q_unsub = 0
    /\ d_n = k /\ d_last = k + MaxEvents /\ d_closed = FALSE
    /\ got = <<>> /\ errSeen = <<>> /\ unsubReq = 0
    /\ cause = Running

InitO ==
    /\ InitConn /\ InitNotifier /\ InitBatchIdle /\ InitServeIdle
    /\ \E k \in {maxClientSubscriptionBuffer - 1,
                  maxClientSubscriptionBuffer} : InitFull(k)
    /\ InitHandler /\ InitLater

\* the subscription from a nearly full buffer on, with one caller of
\* Unsubscribe
NextO ==
    \/ UnsubscribeCall(1) /\ ClientSubOnly
    \/ UnsubscribeOnceLock(1) /\ ClientSubOnly
    \/ UnsubscribeSendQuit(1) /\ ClientSubOnly
    \/ UnsubscribeSeeDone(1) /\ ClientSubOnly
    \/ UnsubscribeCloseErr(1) /\ ClientSubOnly
    \/ \E bad \in BOOLEAN : deliver(bad) /\ ClientSubOnly
    \/ \E err \in {"nil", "ErrClientQuit", "connection lost"} :
          close(err) /\ ClientSubOnly
    \/ ForwardSend /\ ClientSubOnly
    \/ RunCloseForwardDone /\ ClientSubOnly
    \/ RunRequestUnsubscribe /\ ClientSubOnly
    \/ RunSendErr /\ ClientSubOnly
    \/ ErrRead /\ ClientSubOnly

SpecOverflow == InitO /\ [][NextO]_vars

\* ------------------------------------------- claims on ClientSubscription
\* C10: however many Unsubscribe calls run, one after the other or at the
\* same time, close(sub.err) runs at most once and never on a closed
\* channel, Unsubscribe sends on sub.quit at most once, and when any call
\* has returned the channel has been closed exactly once.
C10_UnsubscribeOnce ==
    /\ e_closes <= 1
    /\ q_unsub <= 1
    /\ \A u \in UProcs : u_pc[u] # "panic"
    /\ r_pc # "panic"
    /\ (\E u \in UProcs : u_pc[u] = "returned") => e_closes = 1

\* C10 witness: three Unsubscribe calls have returned, one of them having
\* waited for the Once's mutex while another ran the function, the quit
\* was signalled and the channel closed once.
C10_Witness ==
    /\ \A u \in UProcs : u_pc[u] = "returned"
    /\ q_unsub = 1
    /\ e_closes = 1
    /\ unsubReq = 1

\* C11: when an Unsubscribe call has returned, the forwarding task has
\* stopped (run is over and sub.unsubDone is closed) and sub.err has been
\* closed; from then on nothing more is sent on the consumer's channel and
\* a read of Err() finds the channel closed, with no value.
C11_UnsubscribeReturns ==
    /\ [](\A u \in UProcs : u_pc[u] = "returned" =>
              /\ unsubDone
              /\ r_pc = "done"
              /\ e_closes = 1)
    /\ [][(\E u \in UProcs : u_pc[u] = "returned") =>
              /\ got' = got
              /\ errSeen' # errSeen => errSeen' = Append(errSeen, "closed")]_vars

\* C11 witness: Unsubscribe stopped a subscription that had forwarded a
\* value, returned, and a later read of Err() found the channel closed.
C11_Witness ==
    /\ \E u \in UProcs : u_pc[u] = "returned"
    /\ q_unsub = 1
    /\ Len(got) >= 1
    /\ errSeen = <<"closed">>

\* C12: forward's buffer never holds more than maxClientSubscriptionBuffer
\* values.  When the consumer has taken nothing and one event more than
\* the ceiling was delivered, with no quit and no undecodable event before
\* it, forward has returned ErrSubscriptionQueueOverflow asking for the
\* server-side unsubscribe, run sends that error on sub.err, and from the
\* overflow on nothing is sent to the consumer.
C12_BufferCeiling ==
    /\ [](Len(f_buffer) <= maxClientSubscriptionBuffer)
    /\ []((/\ d_n > maxClientSubscriptionBuffer
           /\ got = <<>>
           /\ q_unsub = 0 /\ ~d_closed
           /\ f_err # "unmarshal error") =>
              /\ r_pc # "forward"
              /\ f_err = ErrSubscriptionQueueOverflow
              /\ f_unsub
              /\ r_pc = "done" =>
                    /\ errSeen # <<>>
                    /\ errSeen[1] = ErrSubscriptionQueueOverflow)
    /\ [][f_err = ErrSubscriptionQueueOverflow => got' = got]_vars

\* C12 witness: with the buffer at its ceiling and nothing taken by the
\* consumer, one more event ended the subscription with the overflow
\* error, which a reader of Err() received.
C12_Witness ==
    /\ d_n > maxClientSubscriptionBuffer
    /\ Len(f_buffer) = maxClientSubscriptionBuffer
    /\ got = <<>>
    /\ r_pc = "done"
    /\ errSeen = <<ErrSubscriptionQueueOverflow>>

\* why forward returned: Unsubscribe's quit, the ceiling, an event that
\* sub.unmarshal rejected, or a quit sent by sub.close
Cause == cause.kind
\* run is past its call of requestUnsubscribe
PastUnsubscribe == r_pc \in {"sendErr", "done", "panic"}

\* C13 as stated: run has called requestUnsubscribe, once, exactly when
\* forward ended by an explicit Unsubscribe or by overflow.
C13_UnsubscribeRequestAsStated ==
    /\ unsubReq <= 1
    /\ PastUnsubscribe =>
          (unsubReq = 1 <=> Cause \in {"unsubscribe", "overflow"})

\* C13: run calls requestUnsubscribe, once, exactly when forward ended by
\* an explicit Unsubscribe, by overflow or by an undecodable event, and
\* never when it ended by a quit that sub.close sent (connection closed);
\* before forward has returned no request is made.
C13_UnsubscribeRequest ==
    /\ unsubReq <= 1
    /\ ~PastUnsubscribe => unsubReq = 0
    /\ PastUnsubscribe =>
          (unsubReq = 1 <=>
               Cause \in {"unsubscribe", "overflow", "undecodable"})

\* C13 witness: an undecodable event ended forward and run made the
\* server-side unsubscribe request before sending the error.
C13_Witness ==
    /\ r_pc = "done"
    /\ Cause = "undecodable"
    /\ unsubReq = 1
    /\ errSeen = <<"unmarshal error">>

\* what readers of sub.Err() received that was sent on it
ErrSent == SelectSeq(errSeen, LAMBDA e : e # "closed")
\* the termination is a graceful one: Unsubscribe, or sub.close with
\* ErrClientQuit (or with no error at all)
Graceful ==
    \/ Cause = "unsubscribe"
    \/ Cause = "quit" /\ cause.err \in {"ErrClientQuit", "nil"}

\* C14: sub.err is closed with no error received from it only when the
\* subscription ended by Unsubscribe or by ErrClientQuit, and a nil value
\* is received only for ErrClientQuit; for every other cause (connection
\* lost, overflow, undecodable event) run, once over, has delivered that
\* non-nil error, and at most one value is ever sent on sub.err.
C14_ErrChannel ==
    /\ Len(ErrSent) <= 1
    /\ (e_closes > 0 /\ ErrSent = <<>>) => Graceful
    /\ ErrSent = <<"nil">> => Cause = "quit" /\ cause.err = "ErrClientQuit"
    /\ (r_pc = "done" /\ ~Graceful) =>
          /\ ErrSent # <<>>
          /\ ErrSent[1] \notin {"nil", "closed"}
          /\ Cause = "quit" => ErrSent[1] = cause.err
          /\ Cause = "overflow" => ErrSent[1] = ErrSubscriptionQueueOverflow
          /\ Cause = "undecodable" => ErrSent[1] = "unmarshal error"

\* C14 witness: the connection was lost, a reader of Err() received that
\* error, and a later Unsubscribe closed the channel.
C14_Witness ==
    /\ cause = Ended("quit", "connection lost")
    /\ errSeen = <<"connection lost", "closed">>
    /\ e_closes = 1

\* --------------------------------------- claims on the Notifier's contract
\* a step in which Notify call p, or a CreateSubscription call, panics
NotifyFaults(p) == nt_res[p] # "panic" /\ nt_res'[p] = "panic"
CreateFaults ==
    Len(c_res') = Len(c_res) + 1 /\ c_res'[Len(c_res')] = "panic"
Faults == CreateFaults \/ \E p \in NProcs : NotifyFaults(p)
\* the contract is violated by the call that now runs its checks
NotifyViolates(p) ==
    /\ nt_pc[p] = "locked" /\ nt_pc'[p] = "done"
    /\ n_sub = NoSub \/ n_sub # nt_id[p]
CreateViolates == Len(c_res') = Len(c_res) + 1 /\ n_sub # NoSub
\* the Notifier and the connection are as they were
NotifierKept ==
    /\ n_sub' = n_sub /\ n_buffer' = n_buffer /\ n_activated' = n_activated
    /\ n_callReturned' = n_callReturned
    /\ wire' = wire /\ connOk' = connOk

SubIDJSON == "\"0x1\""
\* the responses the peer can send: any id, with a subscription id as
\* result, with an error and no result, or with a result that is no string
Responses ==
    {Message(vsn, id, "", Nil, er[1], er[2]) :
        id \in RespIDs,
        er \in {<<Nil, SubIDJSON>>, <<"server error", Nil>>, <<Nil, "{}">>}}

\* json.Unmarshal(raw, &s) for a string s holding old: the error and what
\* s holds afterwards.
Unmarshal(raw, old) ==
    IF raw = SubIDJSON THEN [err |-> Nil, val |-> NewSubID]
    ELSE IF raw = Nil THEN [err |-> "unexpected end of JSON input", val |-> old]
    ELSE [err |-> "cannot unmarshal into string", val |-> old]

\* handleResponse leaving the id in respWait
respWaitKept(rw, id) == rw
\* handler.handleResponse: delete(h.respWait, string(msg.ID))
respWaitAfter(rw, id) == [rw EXCEPT ![id] = NoOp]

\* handler.handleResponse for a subscribe request: op.err as the function
\* leaves it, op.sub.subid, and whether run is started and the
\* subscription put in clientSubs.
subscribeResponse(msg, subid) ==
    LET dec == Unmarshal(msg.Result, subid)
    IN  [err |-> dec.err, subid |-> dec.val, start |-> dec.err # Nil]

\* handler.addRequestOp
addRequestOp(op) ==
    /\ hc_pc = "idle"
    /\ ~op_added[op]
    /\ op_added' = [op_added EXCEPT ![op] = TRUE]
    /\ respWait' = [id \in RespIDs |->
                       IF id \in ids(op) THEN op ELSE respWait[id]]
    /\ UNCHANGED <<op_err, op_resp, op_closes, clientSubs, cs_subid, cs_runs,
                   cs_quit, serverSubs, ss_err, us_res, h_msg, wg,
                   rootCancelled, cp_pc, cp_kind, hc_pc, hc_arg,
                   cp_res>>

\* handler.removeRequestOp, called by a waiter that gave up
removeRequestOp(op) ==
    /\ hc_pc = "idle"
    /\ op_added[op]
    /\ respWait' = [id \in RespIDs |->
                       IF id \in ids(op) THEN NoOp ELSE respWait[id]]
    /\ UNCHANGED <<op_added, op_err, op_resp, op_closes, clientSubs, cs_subid,
                   cs_runs, cs_quit, serverSubs, ss_err, us_res, h_msg, wg,
                   rootCancelled, cp_pc, cp_kind, hc_pc, hc_arg,
                   cp_res>>

\* handler.handleResponse
handleResponse(msg) ==
    LET op == respWait[msg.ID]
        r == subscribeResponse(msg, cs_subid)
    IN  /\ hc_pc = "idle"
        /\ h_msg' = [msg |-> msg, tick |-> ~h_msg.tick]
        /\ IF op = NoOp
              THEN UNCHANGED <<respWait, op_err, op_resp, op_closes,
                               clientSubs, cs_subid, cs_runs>>
           ELSE IF op # SubOp
              THEN /\ respWait' = respWaitAfter(respWait, msg.ID)
                   /\ op_resp' = [op_resp EXCEPT ![op] = Append(@, msg)]
                   /\ UNCHANGED <<op_err, op_closes, clientSubs, cs_subid,
                                  cs_runs>>
              ELSE /\ respWait' = respWaitAfter(respWait, msg.ID)
                   /\ op_err' = [op_err EXCEPT ![op] = r.err]
                   /\ cs_subid' = r.subid
                   /\ cs_runs' = IF r.start THEN cs_runs + 1 ELSE cs_runs
                   /\ clientSubs' = IF r.start THEN clientSubs \cup {r.subid}
                                    ELSE clientSubs
                   /\ op_closes' = [op_closes EXCEPT ![op] = @ + 1]
                   /\ UNCHANGED op_resp
        /\ UNCHANGED <<op_added, cs_quit, serverSubs, ss_err, us_res, wg,
                       rootCancelled, cp_pc, cp_kind, hc_pc, hc_arg,
                   cp_res>>

\* cancelAllRequests closing op.resp once for every id of the request
closesPerID(op, rw, inflightReq) ==
    IF op = inflightReq THEN 0
    ELSE Cardinality({id \in RespIDs : rw[id] = op})
\* handler.cancelAllRequests: how many times close(op.resp) runs for op;
\* didclose holds inflightReq and every request already closed.
closesFor(op, rw, inflightReq) ==
    IF op = inflightReq THEN 0
    ELSE IF \E id \in RespIDs : rw[id] = op THEN 1
    ELSE 0

\* handler.close: h.cancelAllRequests(err, inflightReq)
cancelAllRequests(err, inflightReq) ==
    /\ hc_pc = "idle"
    /\ hc_pc' = "wait"
    /\ hc_arg' = [err |-> err, inflightReq |-> inflightReq]
    /\ respWait' = [id \in RespIDs |-> NoOp]
    /\ op_closes' = [op \in Ops |->
                        op_closes[op] + closesFor(op, respWait, inflightReq)]
    /\ op_err' = [op \in Ops |->
                     IF closesFor(op, respWait, inflightReq) > 0
                        THEN err ELSE op_err[op]]
    /\ clientSubs' = {}
    /\ cs_quit' = IF clientSubs = {} THEN cs_quit ELSE Append(cs_quit, err)
    /\ UNCHANGED <<op_added, op_resp, cs_subid, cs_runs, serverSubs, ss_err,
                   us_res, h_msg, wg, rootCancelled, cp_pc, cp_kind,
                   cp_res>>

\* handler.close: h.CallWG.Wait() returns
CloseWait ==
    /\ hc_pc = "wait"
    /\ wg = 0
    /\ hc_pc' = "cancelRoot"
    /\ UNCHANGED <<respWait, op_added, op_err, op_resp, op_closes, clientSubs,
                   cs_subid, cs_runs, cs_quit, serverSubs, ss_err, us_res,
                   h_msg, wg, rootCancelled, cp_pc, cp_kind, hc_arg,
                   cp_res>>

\* handler.close: h.cancelRoot()
CloseCancelRoot ==
    /\ hc_pc = "cancelRoot"
    /\ rootCancelled' = TRUE
    /\ hc_pc' = "subs"
    /\ UNCHANGED <<respWait, op_added, op_err, op_resp, op_closes, clientSubs,
                   cs_subid, cs_runs, cs_quit, serverSubs, ss_err, us_res,
                   h_msg, wg, cp_pc, cp_kind, hc_arg,
                   cp_res>>

\* A send on a Subscription's err channel blocks when its buffer, of
\* capacity 1 (make(chan error, 1)), is full: nothing in the package
\* receives from it, so what was sent is what is buffered.
errSendBlocks(ch) == Len(ch.sent) >= 1

\* the teardown closing the channel without delivering the reason
teardownNoSend(ch, err) == [ch EXCEPT !.closes = @ + 1]
\* handler.cancelServerSubscriptions, for one subscription:
\* s.err <- err; close(s.err)
teardown(ch, err) ==
    [ch EXCEPT !.sent = Append(@, err), !.closes = @ + 1]

\* the teardown going over every subscription ever registered
rangeEverAdded(subs) == {id \in SubIDs : ss_err[id].added}
\* handler.cancelServerSubscriptions: range h.serverSubs
rangeServerSubs(subs) == subs

\* handler.close: h.cancelServerSubscriptions(err), then close returns.
\* The loop gets through when none of its sends blocks.
cancelServerSubscriptions ==
    /\ hc_pc = "subs"
    /\ \A id \in rangeServerSubs(serverSubs) : ~errSendBlocks(ss_err[id])
    /\ hc_pc' = "returned"
    /\ ss_err' = [id \in SubIDs |->
                     IF id \in rangeServerSubs(serverSubs)
                        THEN teardown(ss_err[id], hc_arg.err)
                        ELSE ss_err[id]]
    /\ serverSubs' = {}
    /\ UNCHANGED <<respWait, op_added, op_err, op_resp, op_closes, clientSubs,
                   cs_subid, cs_runs, cs_quit, us_res, h_msg, wg,
                   rootCancelled, cp_pc, cp_kind, hc_arg,
                   cp_res>>

\* handler.startCallProc: CallWG.Add(1) and the task's goroutine; kind says
\* whether fn returns by itself or only when its context is cancelled.
startCallProc(p, kind) ==
    /\ hc_pc = "idle"
    /\ cp_pc[p] = "idle"
    /\ cp_pc' = [cp_pc EXCEPT ![p] = "running"]
    /\ cp_kind' = [cp_kind EXCEPT ![p] = kind]
    /\ wg' = wg + 1
    /\ UNCHANGED <<respWait, op_added, op_err, op_resp, op_closes, clientSubs,
                   cs_subid, cs_runs, cs_quit, serverSubs, ss_err, us_res,
                   h_msg, rootCancelled, hc_pc, hc_arg,
                   cp_res>>

\* the call message task p works on
CallMsg(p) == Message(vsn, <<ToString(p)>>, "rpc_modules", Nil, Nil, Nil)

\* callback.call run by a call task: (res, errRes) for a method that
\* returns a result, returns an error, or panics (on the task's goroutine,
\* where call's deferred recover is).
callReturn(out) ==
    IF out = "panic" THEN [res |-> Nil, err |-> call("call").res]
    ELSE IF out = "error" THEN [res |-> Nil, err |-> "method error"]
    ELSE [res |-> "result", err |-> Nil]

\* runMethod answering with the result whatever the error
runMethodNoErr(msg, r) == response(msg, r.res)
\* handler.runMethod, given what callb.call returned
runMethod(msg, r) ==
    IF r.err # Nil THEN errResponse(msg, r.err) ELSE response(msg, r.res)

\* what a call task's fn computes for its call message: the method's
\* callback run through runMethod (the dispatch from handleMsg to
\* runMethod is not in handler.go as it stands)
callTask(p, out) == runMethod(CallMsg(p), callReturn(out))

\* the task's fn returns, its method having ended as `out` says and
\* runMethod having made the answer; the deferred cancel and CallWG.Done
\* run
CallProcReturn(p, out) ==
    /\ cp_pc[p] = "running"
    /\ cp_kind[p] = "self" \/ rootCancelled
    /\ cp_pc' = [cp_pc EXCEPT ![p] = "returned"]
    /\ cp_res' = [cp_res EXCEPT ![p] =
                     [out |-> out,
                      resp |-> callTask(p, out)]]
    /\ wg' = wg - 1
    /\ UNCHANGED <<respWait, op_added, op_err, op_resp, op_closes, clientSubs,
                   cs_subid, cs_runs, cs_quit, serverSubs, ss_err, us_res,
                   h_msg, rootCancelled, cp_kind, hc_pc, hc_arg>>

\* handler.addSubscriptions, in a call task whose method created the
\* subscription id
addSubscriptions(id) ==
    /\ \E p \in CallProcs : cp_pc[p] = "running"
    /\ ~ss_err[id].added
    /\ ss_err' = [ss_err EXCEPT ![id].added = TRUE]
    /\ serverSubs' = serverSubs \cup {id}
    /\ UNCHANGED <<respWait, op_added, op_err, op_resp, op_closes, clientSubs,
                   cs_subid, cs_runs, cs_quit, us_res, h_msg, wg,
                   rootCancelled, cp_pc, cp_kind, hc_pc, hc_arg,
                   cp_res>>

\* unsubscribe leaving the subscription in serverSubs
serverSubsKept(subs, id) == subs
\* handler.unsubscribe: delete(h.serverSubs, id)
serverSubsAfter(subs, id) == subs \ {id}

\* handler.unsubscribe, the callback of *_unsubscribe, run by a call task
\* under h.subLock
unsubscribe(id) ==
    /\ \E p \in CallProcs : cp_pc[p] = "running"
    /\ IF id \in serverSubs
          THEN /\ ss_err' = [ss_err EXCEPT ![id].closes = @ + 1]
               /\ serverSubs' = serverSubsAfter(serverSubs, id)
               /\ us_res' = [id |-> id, ok |-> TRUE, err |-> Nil,
                             tick |-> ~us_res.tick]
          ELSE /\ us_res' = [id |-> id, ok |-> FALSE,
                             err |-> ErrSubscriptionNotFound,
                             tick |-> ~us_res.tick]
               /\ UNCHANGED <<ss_err, serverSubs>>
    /\ UNCHANGED <<respWait, op_added, op_err, op_resp, op_closes, clientSubs,
                   cs_subid, cs_runs, cs_quit, h_msg, wg, rootCancelled,
                   cp_pc, cp_kind, hc_pc, hc_arg,
                   cp_res>>

InitH ==
    /\ InitConn /\ InitNotifier /\ InitBatchIdle /\ InitServeIdle
    /\ InitClientSub
    /\ InitHandler /\ InitLater

\* the handler's specification leaves the other components alone
HandlerOnly == UNCHANGED <<cvars, nvars, bvars, svars, uvars, lvars>>

\* the client side of the handler: requests, responses and close
NextHC ==
    \/ \E op \in Ops : addRequestOp(op) /\ HandlerOnly
    \/ \E op \in Ops : removeRequestOp(op) /\ HandlerOnly
    \/ \E msg \in Responses : handleResponse(msg) /\ HandlerOnly
    \/ \E err \in {"EOF", "ErrClientQuit"}, inflightReq \in Ops \cup {NoOp} :
          cancelAllRequests(err, inflightReq) /\ HandlerOnly
    \/ CloseWait /\ HandlerOnly
    \/ CloseCancelRoot /\ HandlerOnly
    \/ cancelServerSubscriptions /\ HandlerOnly

SpecHandlerClient == InitH /\ [][NextHC]_vars

\* the server side of the handler: call tasks, server-side subscriptions
\* and close
NextHS ==
    \/ \E p \in CallProcs, kind \in {"self", "ctx"} :
          startCallProc(p, kind) /\ HandlerOnly
    \/ \E p \in CallProcs, out \in {"ok", "error", "panic"} :
          CallProcReturn(p, out) /\ HandlerOnly
    \/ \E id \in SubIDs : addSubscriptions(id) /\ HandlerOnly
    \/ \E id \in SubIDs : unsubscribe(id) /\ HandlerOnly
    \/ \E err \in {"EOF", "ErrClientQuit"} :
          cancelAllRequests(err, NoOp) /\ HandlerOnly
    \/ CloseWait /\ HandlerOnly
    \/ CloseCancelRoot /\ HandlerOnly
    \/ cancelServerSubscriptions /\ HandlerOnly

SpecHandlerServer == InitH /\ [][NextHS]_vars

\* the handler's server side with its tasks scheduled: a call task whose
\* fn can return does return, and handler.close takes each step it can
SpecHandlerServerFair ==
    /\ InitH /\ [][NextHS]_vars
    /\ \A p \in CallProcs :
          WF_vars(\E out \in {"ok", "error", "panic"} :
                     CallProcReturn(p, out) /\ HandlerOnly)
    /\ WF_vars(CloseWait /\ HandlerOnly)
    /\ WF_vars(CloseCancelRoot /\ HandlerOnly)
    /\ WF_vars(cancelServerSubscriptions /\ HandlerOnly)

\* ------------------------------------------------- claims on the handler
\* a step of handler.unsubscribe, of handler.handleResponse, and of
\* handler.close's cancelAllRequests
UnsubscribeStep == us_res'.tick # us_res.tick
ResponseStep == h_msg'.tick # h_msg.tick
CancelStep == hc_pc = "idle" /\ hc_pc' = "wait"
\* op is registered in respWait under some id
Pending(op) == \E id \in RespIDs : respWait[id] = op
\* everything of the requests other than op is as it was
OthersKept(op) ==
    \A o \in Ops \ {op} :
        /\ op_resp'[o] = op_resp[o]
        /\ op_err'[o] = op_err[o]
        /\ op_closes'[o] = op_closes[o]

\* C16: unsubscribe of an id in serverSubs closes that subscription's err
\* channel with nothing sent on it, removes the id and returns true; of an
\* id not in serverSubs it returns false and ErrSubscriptionNotFound and
\* changes neither serverSubs nor any err channel; so an id whose channel
\* was closed before is not found.
C16_Unsubscribe ==
    [][UnsubscribeStep =>
          LET id == us_res'.id
          IN  /\ \A o \in SubIDs \ {id} : ss_err'[o] = ss_err[o]
              /\ IF id \in serverSubs
                    THEN /\ us_res'.ok /\ us_res'.err = Nil
                         /\ serverSubs' = serverSubs \ {id}
                         /\ ss_err'[id].closes = ss_err[id].closes + 1
                         /\ ss_err'[id].closes = 1
                         /\ ss_err'[id].sent = <<>>
                    ELSE /\ ~us_res'.ok
                         /\ us_res'.err = ErrSubscriptionNotFound
                         /\ serverSubs' = serverSubs
                         /\ ss_err'[id] = ss_err[id]
              /\ ss_err[id].closes > 0 => ~us_res'.ok]_vars

\* C16 witness: with the handler still open, the id was unsubscribed once
\* (its channel closed, nothing sent) and a second unsubscribe of it
\* returned subscription-not-found.
C16_Witness ==
    /\ hc_pc = "idle"
    /\ us_res.id = NewSubID
    /\ ~us_res.ok
    /\ us_res.err = ErrSubscriptionNotFound
    /\ ss_err[NewSubID] = [added |-> TRUE, sent |-> <<>>, closes |-> 1]
    /\ NewSubID \notin serverSubs

\* C17: a response to a pending subscribe request that carries no error
\* and a result decoding as a subscription id registers the subscription
\* in clientSubs under that id, starts its run and leaves op.err nil; any
\* other response to it sets op.err, starts no run and leaves clientSubs
\* as it was.
C17_SubscribeResponse ==
    [][(ResponseStep /\ respWait[h_msg'.msg.ID] = SubOp) =>
          LET msg == h_msg'.msg
              dec == Unmarshal(msg.Result, "")
          IN  IF msg.Error = Nil /\ dec.err = Nil
                 THEN /\ clientSubs' = clientSubs \cup {dec.val}
                      /\ cs_runs' = cs_runs + 1
                      /\ op_err'[SubOp] = Nil
                 ELSE /\ op_err'[SubOp] # Nil
                      /\ cs_runs' = cs_runs
                      /\ clientSubs' = clientSubs]_vars

\* C18: a response whose id is in respWait goes to the request registered
\* under it and to no other (its message is sent on op.resp, or for a
\* subscribe request op.resp is closed), and the id leaves respWait; a
\* response whose id is not in respWait changes nothing.  No request gets
\* two responses for one id, nor a response for an id that is not its own.
C18_ResponseCorrelation ==
    /\ [][ResponseStep =>
            LET msg == h_msg'.msg
                op == respWait[msg.ID]
            IN  IF op = NoOp
                   THEN UNCHANGED <<respWait, clientSubs, op_resp, op_err,
                                    op_closes, cs_runs>>
                   ELSE /\ respWait' = [respWait EXCEPT ![msg.ID] = NoOp]
                        /\ OthersKept(op)
                        /\ IF op = SubOp
                              THEN /\ op_closes'[op] = op_closes[op] + 1
                                   /\ op_resp'[op] = op_resp[op]
                              ELSE /\ op_resp'[op] = Append(op_resp[op], msg)
                                   /\ op_closes'[op] = op_closes[op]]_vars
    /\ [](\A op \in Ops :
             /\ op_closes[op] <= 1
             /\ \A i \in 1..Len(op_resp[op]) :
                   /\ op_resp[op][i].ID \in ids(op)
                   /\ \A j \in 1..Len(op_resp[op]) :
                         op_resp[op][j].ID = op_resp[op][i].ID => j = i)

\* C18 witness: the batch request got the responses for both of its ids,
\* and another response carrying one of those ids was then dropped.
C18_Witness ==
    /\ Len(op_resp[BatchOp]) = 2
    /\ h_msg.msg \in Responses
    /\ h_msg.msg.ID = <<"2">>
    /\ \A i \in 1..2 : op_resp[BatchOp][i] # h_msg.msg
    /\ hc_pc = "idle"

\* C19: when close(err, inflightReq) cancels the requests, every request
\* in respWait other than inflightReq gets op.err = err and its op.resp
\* closed, once, under however many ids it is registered; inflightReq and
\* the requests not in respWait are left alone; a subscription in
\* clientSubs is closed with err; respWait and clientSubs end up empty.
\* No op.resp is ever closed twice.
C19_CancelAll ==
    /\ [][CancelStep =>
            /\ \A op \in Ops :
                  IF Pending(op) /\ op # hc_arg'.inflightReq
                     THEN /\ op_err'[op] = hc_arg'.err
                          /\ op_closes'[op] = op_closes[op] + 1
                     ELSE /\ op_err'[op] = op_err[op]
                          /\ op_closes'[op] = op_closes[op]
            /\ op_resp' = op_resp
            /\ cs_quit' = IF clientSubs # {}
                             THEN Append(cs_quit, hc_arg'.err) ELSE cs_quit
            /\ respWait' = [id \in RespIDs |-> NoOp]
            /\ clientSubs' = {}]_vars
    /\ [](\A op \in Ops : op_closes[op] <= 1)

\* C19 witness: close("EOF", the Call's request) found the batch request
\* pending under both its ids and a subscription registered: the batch
\* request was cancelled once, the Call's request left alone, the
\* subscription closed with EOF.
C19_Witness ==
    /\ hc_pc = "wait"
    /\ hc_arg = [err |-> "EOF", inflightReq |-> CallOp]
    /\ op_closes[BatchOp] = 1 /\ op_err[BatchOp] = "EOF"
    /\ op_resp[BatchOp] = <<>>
    /\ op_added[CallOp] /\ op_closes[CallOp] = 0 /\ op_err[CallOp] = Nil
    /\ cs_quit = <<"EOF">>

TeardownStep == hc_pc = "subs" /\ hc_pc' = "returned"

\* C21: the teardown delivers close's reason on the err channel of every
\* subscription then in serverSubs, once, closes the channel and leaves
\* serverSubs empty, touching no other subscription; no channel ever
\* holds more than that one value, and with nobody reading the channels
\* a close that has got to the teardown returns.
C21_Teardown ==
    /\ [][TeardownStep =>
            /\ \A id \in SubIDs :
                  IF id \in serverSubs
                     THEN /\ ss_err'[id].sent = <<hc_arg.err>>
                          /\ hc_arg.err # Nil
                          /\ ss_err'[id].closes = ss_err[id].closes + 1
                     ELSE ss_err'[id] = ss_err[id]
            /\ serverSubs' = {}]_vars
    /\ [](\A id \in SubIDs : Len(ss_err[id].sent) <= 1)
    /\ (hc_pc = "subs") ~> (hc_pc = "returned" /\ serverSubs = {})

\* C21 witness: close(EOF) has returned having found both subscriptions
\* registered; each holds EOF, unread, in its closed channel.
C21_Witness ==
    /\ hc_pc = "returned"
    /\ hc_arg.err = "EOF"
    /\ serverSubs = {}
    /\ \A id \in SubIDs :
          ss_err[id] = [added |-> TRUE, sent |-> <<"EOF">>, closes |-> 1]

\* C22: whatever the order of unsubscribe calls, for the same id or not,
\* and of the connection's close, no Subscription's err channel is closed
\* twice, and nothing is sent on a channel that is closed.
C22_SingleClose ==
    /\ [](\A id \in SubIDs : ss_err[id].closes <= 1)
    /\ [][\A id \in SubIDs :
             ss_err[id].closes > 0 => ss_err'[id] = ss_err[id]]_vars

\* C22 witness: one id was unsubscribed, a second unsubscribe of it found
\* nothing, and close then ended the other subscription only: each
\* channel was closed once.
C22_Witness ==
    /\ hc_pc = "returned"
    /\ us_res.id = NewSubID /\ ~us_res.ok
    /\ ss_err[NewSubID] = [added |-> TRUE, sent |-> <<>>, closes |-> 1]
    /\ ss_err[OtherSubID].closes = 1
    /\ Len(ss_err[OtherSubID].sent) = 1

\* call task p returns in this step
ReturnStep(p) == cp_pc[p] = "running" /\ cp_pc'[p] = "returned"

\* C23: a method that panics in a call task gives, through callback.call
\* and runMethod, an error response "method handler crashed" with the
\* call's id; the task returns all the same, taking itself off CallWG,
\* and its return leaves the connection, handler.close and every other
\* call task as they were.
C23_PanicContained ==
    /\ [](\A p \in CallProcs :
             cp_res[p].out = "panic" =>
                 /\ cp_pc[p] = "returned"
                 /\ isResponse(cp_res[p].resp)
                 /\ cp_res[p].resp.Error = "method handler crashed"
                 /\ cp_res[p].resp.Result = Nil
                 /\ cp_res[p].resp.ID = CallMsg(p).ID)
    /\ [][\A p \in CallProcs :
             ReturnStep(p) =>
                 /\ wg' = wg - 1
                 /\ \A q \in CallProcs \ {p} :
                       cp_pc'[q] = cp_pc[q] /\ cp_res'[q] = cp_res[q]
                 /\ UNCHANGED <<wire, connOk, hc_pc, rootCancelled,
                                serverSubs, ss_err>>]_vars

\* C23 witness: the first task's method panicked and the task returned
\* with the error response; the second, in flight meanwhile, returned its
\* result afterwards, and CallWG is back at zero.
C23_Witness ==
    /\ cp_res[1].out = "panic" /\ cp_pc[1] = "returned"
    /\ cp_res[2].out = "ok" /\ cp_pc[2] = "returned"
    /\ cp_res[2].resp.Result = "result"
    /\ wg = 0
    /\ hc_pc = "idle"

(***************************************************************************)
(* jsonrpcMessage classification (json.go:40-58)                          *)
(***************************************************************************)
\* raw ids: absent, null, an object, an array, a number, a string
NullID == <<"n", "u", "l", "l">>
ObjectID == <<"{", "}">>
ArrayID == <<"[", "]">>
NumberID == <<"7">>
StringID == <<"\"", "a", "\"">>
RawIDs == {NilID, NullID, ObjectID, ArrayID, NumberID, StringID}
Versions == {"", "1.0", vsn}
Methods == {"", "eth_call", "eth_subscription"}

\* every message the decoder can hand over, field by field
Messages ==
    {Message(v, id, m, p, e, r) :
        v \in Versions, id \in RawIDs, m \in Methods,
        p \in {Nil, "[]"}, e \in {Nil, "error"}, r \in {Nil, "0x1"}}

InitJ ==
    /\ InitConn /\ InitNotifier /\ InitBatchIdle /\ InitServeIdle
    /\ InitClientSub
    /\ InitHandler
    /\ InitRest
    /\ j_msg \in Messages /\ j_class = NotAsked
    /\ InitRegistry /\ InitTypesIdle /\ InitClient /\ InitFunSub

\* the four predicates asked of the message
Classify ==
    /\ ~j_class.asked
    /\ j_class' = [asked |-> TRUE,
                   validID |-> hasValidID(j_msg),
                   notification |-> isNotification(j_msg),
                   call |-> isCall(j_msg),
                   response |-> isResponse(j_msg)]
    /\ UNCHANGED j_msg

JsonOnly ==
    UNCHANGED <<cvars, nvars, bvars, svars, uvars, hvars, gvars, tvars,
                kvars, fvars,
                xvars,
                yvars,
                zvars,
                rvars>>

NextJ ==
    \/ Classify /\ JsonOnly

SpecJson == InitJ /\ [][NextJ]_vars

\* how many of the three classes the message was put in
Classes ==
    (IF j_class.notification THEN 1 ELSE 0)
    + (IF j_class.call THEN 1 ELSE 0)
    + (IF j_class.response THEN 1 ELSE 0)

\* JSON-RPC 2.0 shapes: a request has a string or number id and a method,
\* a notification a method and no id, a response a string or number id,
\* no method, no params and one of result and error
ScalarID(id) == id \in {NumberID, StringID}
WellFormedCall(msg) == ScalarID(msg.ID) /\ msg.Method # ""
WellFormedNotification(msg) == msg.ID = NilID /\ msg.Method # ""
WellFormedResponse(msg) ==
    /\ ScalarID(msg.ID) /\ msg.Method = "" /\ msg.Params = Nil
    /\ (msg.Result # Nil) # (msg.Error # Nil)
WellFormed(msg) ==
    /\ hasValidVersion(msg)
    /\ WellFormedCall(msg) \/ WellFormedNotification(msg)
       \/ WellFormedResponse(msg)

\* C24: no message is put in two of the classes notification, call and
\* response, and a well-formed call, notification or response with the
\* right version is put in exactly one.
C24_Exclusive ==
    j_class.asked =>
        /\ Classes <= 1
        /\ WellFormed(j_msg) => Classes = 1

\* C24 witness: a well-formed call was classified as a call and nothing
\* else.
C24_Witness ==
    /\ j_class.asked
    /\ WellFormedCall(j_msg) /\ hasValidVersion(j_msg)
    /\ j_class.call /\ ~j_class.notification /\ ~j_class.response

\* C25 as stated: hasValidID holds of exactly the string and number ids
\* (not of an absent id, null, an object or an array), and a message
\* whose id is null is neither a call nor a response.
C25_ValidID ==
    j_class.asked =>
        /\ j_class.validID = ScalarID(j_msg.ID)
        /\ j_msg.ID = NullID => ~j_class.call /\ ~j_class.response

\* C25: hasValidID holds of exactly the ids that are present and are not
\* an object or an array: of strings, of numbers and of null; so a message
\* with the right version whose id is null is a call when it has a
\* method, and a response when it has no method, no params and a result
\* or an error.
C25_ValidIDWithNull ==
    j_class.asked =>
        /\ j_class.validID = (j_msg.ID \in {NullID, NumberID, StringID})
        /\ (j_msg.ID = NullID /\ hasValidVersion(j_msg)) =>
              /\ j_class.call = (j_msg.Method # "")
              /\ j_class.response =
                    /\ j_msg.Method = "" /\ j_msg.Params = Nil
                    /\ (j_msg.Result # Nil \/ j_msg.Error # Nil)

\* C25 witness: a message with id null and a method was classified as a
\* call.
C25_Witness ==
    /\ j_class.asked /\ j_msg.ID = NullID
    /\ j_class.validID /\ j_class.call

\* C26 as stated: a message is a response only if it has a valid id, no
\* method, no params and exactly one of result and error.
C26_ResponseXor ==
    (j_class.asked /\ j_class.response) =>
        /\ j_class.validID
        /\ j_msg.Method = "" /\ j_msg.Params = Nil
        /\ (j_msg.Result # Nil) # (j_msg.Error # Nil)

(***************************************************************************)
(* serviceRegistry.registerName (service.go:43-75)                        *)
(***************************************************************************)
MaxReg == 2
Namespaces == {"eth", "net"}
GoMethods == {"Foo", "Bar"}
RPCMethods == {"foo", "bar"}
NoCb == [none |-> TRUE]

\* formatName: the first letter in lower case
formatName(name) == IF name = "Foo" THEN "foo" ELSE "bar"

\* receivers: each exported method is unsuitable, a call or a subscription
Receivers ==
    {[id |-> i, methods |-> f] :
        i \in 1..2, f \in [GoMethods -> {"unsuitable", "call", "subscribe"}]}

\* suitableCallbacks: per RPC method name the receiver's callback, NoCb
\* for the names it does not expose
suitableCallbacks(rcvr) ==
    [m \in RPCMethods |->
        LET gm == CHOOSE g \in GoMethods : formatName(g) = m
        IN  IF rcvr.methods[gm] = "unsuitable" THEN NoCb
            ELSE [rcvr |-> rcvr.id, fn |-> gm,
                  isSubscribe |-> rcvr.methods[gm] = "subscribe"]]

\* len(callbacks)
NumCallbacks(callbacks) == Cardinality({m \in RPCMethods : callbacks[m] # NoCb})

\* a service with empty maps
emptyService(name) ==
    [present |-> TRUE, name |-> name,
     callbacks |-> [m \in RPCMethods |-> NoCb],
     subscriptions |-> [m \in RPCMethods |-> NoCb]]

\* registerName starting every time from an empty service
serviceFresh(svcs, name) == emptyService(name)
\* svc, ok := r.services[name]; a new service if !ok
serviceOf(svcs, name) ==
    IF svcs[name].present THEN svcs[name] ELSE emptyService(name)

\* the loop of registerName over the receiver's callbacks
addCallbacks(svc, callbacks) ==
    [svc EXCEPT
        !.callbacks = [m \in RPCMethods |->
            IF callbacks[m] # NoCb /\ ~callbacks[m].isSubscribe
               THEN callbacks[m] ELSE svc.callbacks[m]],
        !.subscriptions = [m \in RPCMethods |->
            IF callbacks[m] # NoCb /\ callbacks[m].isSubscribe
               THEN callbacks[m] ELSE svc.subscriptions[m]]]

registerName(name, rcvr) ==
    /\ Len(reg_log) < MaxReg
    /\ LET callbacks == suitableCallbacks(rcvr)
       IN  IF name = ""
              THEN /\ reg_log' = Append(reg_log, [name |-> name,
                          rcvr |-> rcvr, err |-> "no service name"])
                   /\ UNCHANGED services
           ELSE IF NumCallbacks(callbacks) = 0
              THEN /\ reg_log' = Append(reg_log, [name |-> name,
                          rcvr |-> rcvr, err |-> "no suitable methods"])
                   /\ UNCHANGED services
           ELSE /\ services' = [services EXCEPT ![name] =
                       addCallbacks(serviceOf(services, name), callbacks)]
                /\ reg_log' = Append(reg_log, [name |-> name,
                       rcvr |-> rcvr, err |-> Nil])

InitG ==
    /\ InitConn /\ InitNotifier /\ InitBatchIdle /\ InitServeIdle
    /\ InitClientSub
    /\ InitHandler
    /\ InitRest
    /\ InitJsonIdle /\ InitRegistry /\ InitTypesIdle /\ InitClient /\ InitFunSub

RegistryOnly ==
    UNCHANGED <<cvars, nvars, bvars, svars, uvars, hvars, jvars, tvars,
                kvars, fvars,
                xvars,
                yvars,
                zvars,
                rvars>>

NextG ==
    \/ \E name \in Namespaces \cup {""}, rcvr \in Receivers :
          registerName(name, rcvr) /\ RegistryOnly

SpecRegistry == InitG /\ [][NextG]_vars

\* the registrations so far that succeeded under namespace ns and gave
\* RPC method m as a subscription (sub = TRUE) or as a call
Contributed(ns, m, sub) ==
    {i \in 1..Len(reg_log) :
        /\ reg_log[i].err = Nil /\ reg_log[i].name = ns
        /\ suitableCallbacks(reg_log[i].rcvr)[m] # NoCb
        /\ suitableCallbacks(reg_log[i].rcvr)[m].isSubscribe = sub}
Last(S) == CHOOSE i \in S : \A j \in S : j <= i
\* what namespace ns must hold under m after the registrations so far
Expected(ns, m, sub) ==
    IF Contributed(ns, m, sub) = {} THEN NoCb
    ELSE suitableCallbacks(reg_log[Last(Contributed(ns, m, sub))].rcvr)[m]

\* C27: registerName fails exactly for an empty namespace or a receiver
\* without suitable method, and then leaves the registry as it was;
\* otherwise it succeeds, and after any sequence of registrations a
\* namespace's calls and subscriptions are the union of what the
\* successful registrations under it gave, each name bound to the callback
\* of the last registration that gave it.
C27_RegisterName ==
    /\ [](\A i \in 1..Len(reg_log) :
             (reg_log[i].err # Nil) <=>
                 \/ reg_log[i].name = ""
                 \/ \A g \in GoMethods :
                       reg_log[i].rcvr.methods[g] = "unsuitable")
    /\ [][(reg_log' # reg_log /\ reg_log'[Len(reg_log')].err # Nil)
             => services' = services]_vars
    /\ [](\A ns \in Namespaces :
             /\ services[ns].present <=>
                   \E i \in 1..Len(reg_log) :
                       reg_log[i].err = Nil /\ reg_log[i].name = ns
             /\ services[ns].present =>
                   \A m \in RPCMethods :
                       /\ services[ns].callbacks[m] = Expected(ns, m, FALSE)
                       /\ services[ns].subscriptions[m]
                             = Expected(ns, m, TRUE))

\* C27 witness: two receivers were registered under "eth", the first
\* giving the call foo, the second the subscription bar, and the
\* namespace holds both.
C27_Witness ==
    /\ Len(reg_log) = 2
    /\ \A i \in 1..2 : reg_log[i].name = "eth" /\ reg_log[i].err = Nil
    /\ reg_log[1].rcvr.id = 1 /\ reg_log[2].rcvr.id = 2
    /\ reg_log[2].rcvr.methods["Foo"] = "unsuitable"
    /\ services["eth"].callbacks["foo"] # NoCb
    /\ services["eth"].callbacks["foo"].rcvr = 1
    /\ services["eth"].subscriptions["bar"] # NoCb
    /\ services["eth"].subscriptions["bar"].rcvr = 2

(***************************************************************************)
(* BlockNumber.UnmarshalJSON and MarshalText (types.go:45-114)            *)
(*                                                                         *)
(* A text is a sequence of characters, the five tag words being kept as   *)
(* one piece each.  A BlockNumber is a sign and a magnitude, the          *)
(* magnitude being its hexadecimal digits (0..15) without leading zeros,  *)
(* so that the whole of int64 and uint64 is there: zero is the empty      *)
(* magnitude.                                                              *)
(***************************************************************************)
MaxDigits == 2
Lower == <<"0", "1", "2", "3", "4", "5", "6", "7", "8", "9",
           "a", "b", "c", "d", "e", "f">>
Upper == <<"0", "1", "2", "3", "4", "5", "6", "7", "8", "9",
           "A", "B", "C", "D", "E", "F">>
Tags == {"earliest", "latest", "pending", "finalized", "safe"}

BlockNumber(neg, mag) == [neg |-> neg, mag |-> mag]
SafeBlockNumber == BlockNumber(TRUE, <<4>>)
FinalizedBlockNumber == BlockNumber(TRUE, <<3>>)
PendingBlockNumber == BlockNumber(TRUE, <<2>>)
LatestBlockNumber == BlockNumber(TRUE, <<1>>)
EarliestBlockNumber == BlockNumber(FALSE, <<>>)

RECURSIVE TrimLeft(_)
TrimLeft(t) == IF t # <<>> /\ t[1] = " " THEN TrimLeft(Tail(t)) ELSE t
RECURSIVE TrimRight(_)
TrimRight(t) ==
    IF t # <<>> /\ t[Len(t)] = " "
       THEN TrimRight(SubSeq(t, 1, Len(t) - 1)) ELSE t
\* strings.TrimSpace
TrimSpace(t) == TrimRight(TrimLeft(t))

\* the text between a leading and a trailing double quote, if both are
\* there
Unquote(t) ==
    IF Len(t) >= 2 /\ t[1] = "\"" /\ t[Len(t)] = "\""
       THEN SubSeq(t, 2, Len(t) - 1) ELSE t

has0xPrefix(input) ==
    Len(input) >= 2 /\ input[1] = "0" /\ input[2] \in {"x", "X"}

\* hexutil.checkNumber: the digits after the prefix, or an error
checkNumber(input) ==
    IF Len(input) = 0 THEN [raw |-> <<>>, err |-> "ErrEmptyNumber"]
    ELSE IF ~has0xPrefix(input)
       THEN [raw |-> <<>>, err |-> "ErrMissingPrefix"]
    ELSE IF Len(input) = 2 THEN [raw |-> <<>>, err |-> "ErrEmptyNumber"]
    ELSE IF Len(input) > 3 /\ input[3] = "0"
       THEN [raw |-> <<>>, err |-> "ErrLeadingZero"]
    ELSE [raw |-> SubSeq(input, 3, Len(input)), err |-> Nil]

IsHexDigit(c) == \E i \in 1..16 : Lower[i] = c \/ Upper[i] = c
decodeNibble(c) == (CHOOSE i \in 1..16 : Lower[i] = c \/ Upper[i] = c) - 1

RECURSIVE StripZeros(_)
StripZeros(mag) ==
    IF mag # <<>> /\ mag[1] = 0 THEN StripZeros(Tail(mag)) ELSE mag

\* strconv.ParseUint(raw, 16, 64)
ParseUint(raw) ==
    IF raw = <<>> \/ \E i \in 1..Len(raw) : ~IsHexDigit(raw[i])
       THEN [dec |-> <<>>, err |-> "ErrSyntax"]
    ELSE LET mag == StripZeros([i \in 1..Len(raw) |-> decodeNibble(raw[i])])
         IN  IF Len(mag) > 16 THEN [dec |-> <<>>, err |-> "ErrUintRange"]
             ELSE [dec |-> mag, err |-> Nil]

\* hexutil.DecodeUint64
DecodeUint64(input) ==
    LET chk == checkNumber(input)
    IN  IF chk.err # Nil THEN [dec |-> <<>>, err |-> chk.err]
        ELSE ParseUint(chk.raw)

\* blckNum > math.MaxInt64
AboveMaxInt64(mag) == Len(mag) = 16 /\ mag[1] >= 8

\* BlockNumber.UnmarshalJSON: the number and the error; the number is
\* left as it was (old) on an error
UnmarshalJSON(data, old) ==
    LET input == Unquote(TrimSpace(data))
        dec == DecodeUint64(input)
    IN  IF input = <<"earliest">> THEN [bn |-> EarliestBlockNumber, err |-> Nil]
        ELSE IF input = <<"latest">> THEN [bn |-> LatestBlockNumber, err |-> Nil]
        ELSE IF input = <<"pending">> THEN [bn |-> PendingBlockNumber, err |-> Nil]
        ELSE IF input = <<"finalized">>
           THEN [bn |-> FinalizedBlockNumber, err |-> Nil]
        ELSE IF input = <<"safe">> THEN [bn |-> SafeBlockNumber, err |-> Nil]
        ELSE IF dec.err # Nil THEN [bn |-> old, err |-> dec.err]
        ELSE IF AboveMaxInt64(dec.dec)
           THEN [bn |-> old, err |-> "block number larger than int64"]
        ELSE [bn |-> BlockNumber(FALSE, dec.dec), err |-> Nil]

\* strconv.AppendUint(buf, i, 16)
AppendUint(mag) ==
    IF mag = <<>> THEN <<"0">> ELSE [i \in 1..Len(mag) |-> Lower[mag[i] + 1]]

\* uint64(bn): a negative number -k, k in 1..16, wraps to 2^64 - k
Uint64(bn) ==
    IF bn.neg THEN [i \in 1..16 |-> IF i < 16 THEN 15 ELSE 16 - bn.mag[1]]
    ELSE bn.mag

\* MarshalText answering in hexadecimal for every number
MarshalTextHexOnly(bn) == <<"0", "x">> \o AppendUint(Uint64(bn))
\* BlockNumber.MarshalText
MarshalText(bn) ==
    IF bn = EarliestBlockNumber THEN <<"earliest">>
    ELSE IF bn = LatestBlockNumber THEN <<"latest">>
    ELSE IF bn = PendingBlockNumber THEN <<"pending">>
    ELSE IF bn = FinalizedBlockNumber THEN <<"finalized">>
    ELSE IF bn = SafeBlockNumber THEN <<"safe">>
    ELSE <<"0", "x">> \o AppendUint(Uint64(bn))

\* digit strings of up to n of the sampled digits
SampleDigits == {"0", "1", "7", "8", "a", "A", "f", "g"}
DigitStrings == SeqsUpTo(SampleDigits, MaxDigits)
\* sixteen and seventeen digits: MaxInt64, the first number above it, the
\* largest uint64 and the first number of 65 bits
Wide(first, rest, n) == [i \in 1..n |-> IF i = 1 THEN first ELSE rest]
LongDigits ==
    {Wide("7", "f", 16), Wide("8", "0", 16), Wide("f", "f", 16),
     Wide("1", "0", 17)}
Texts ==
    {<<t>> : t \in Tags} \cup {<<"\"", t, "\"">> : t \in Tags}
    \cup {<<" ", "latest", " ">>, <<"l", "a", "t", "e", "s", "t", "!">>}
    \cup {<<"0", x>> \o d : x \in {"x", "X"}, d \in DigitStrings \cup LongDigits}
    \cup {<<"\"", "0", "x">> \o d \o <<"\"">> : d \in DigitStrings}
    \cup DigitStrings
\* the numbers the texts decode to, and the five tags
Numbers ==
    {UnmarshalJSON(t, EarliestBlockNumber).bn : t \in Texts}
    \cup {SafeBlockNumber, FinalizedBlockNumber, PendingBlockNumber,
          LatestBlockNumber, EarliestBlockNumber}

InitT ==
    /\ InitConn /\ InitNotifier /\ InitBatchIdle /\ InitServeIdle
    /\ InitClientSub
    /\ InitHandler
    /\ InitRest
    /\ InitJsonIdle /\ InitRegistry /\ InitClient /\ InitFunSub
    /\ bn_in \in {[kind |-> "text", text |-> t] : t \in Texts}
              \cup {[kind |-> "number", bn |-> n] : n \in Numbers}
    /\ bn_out = NoTrip

\* UnmarshalJSON, then MarshalText of the number it gave
TextRoundTrip ==
    /\ bn_in.kind = "text" /\ ~bn_out.done
    /\ LET u == UnmarshalJSON(bn_in.text, EarliestBlockNumber)
       IN  bn_out' = [done |-> TRUE, err |-> u.err, bn |-> u.bn,
                      text |-> IF u.err = Nil THEN MarshalText(u.bn)
                               ELSE <<>>]
    /\ UNCHANGED bn_in

\* MarshalText, then UnmarshalJSON of the text it gave
NumberRoundTrip ==
    /\ bn_in.kind = "number" /\ ~bn_out.done
    /\ LET text == MarshalText(bn_in.bn)
           u == UnmarshalJSON(text, SafeBlockNumber)
       IN  bn_out' = [done |-> TRUE, err |-> u.err, bn |-> u.bn,
                      text |-> text]
    /\ UNCHANGED bn_in

TypesOnly ==
    UNCHANGED <<cvars, nvars, bvars, svars, uvars, hvars, jvars, gvars,
                kvars, fvars,
                xvars,
                yvars,
                zvars,
                rvars>>

NextT ==
    \/ TextRoundTrip /\ TypesOnly
    \/ NumberRoundTrip /\ TypesOnly

SpecTypes == InitT /\ [][NextT]_vars

\* a hex quantity in the int64 range without leading zeros, written with
\* the prefix 0x and lower-case digits
Quantity(t) ==
    /\ Len(t) >= 3 /\ Len(t) <= 18 /\ t[1] = "0" /\ t[2] = "x"
    /\ \A i \in 3..Len(t) : \E k \in 1..16 : Lower[k] = t[i]
    /\ Len(t) > 3 => t[3] # "0"
    /\ Len(t) = 18 => t[3] \in {"1", "2", "3", "4", "5", "6", "7"}
IsTag(t) == \E w \in Tags : t = <<w>>
ZeroText == <<"0", "x", "0">>

\* the round trip gave back what went in
SameText == bn_out.err = Nil /\ bn_out.text = bn_in.text
SameNumber == bn_out.err = Nil /\ bn_out.bn = bn_in.bn

\* C28 as stated: every tag and every hex quantity in the int64 range
\* without leading zeros comes back as the identical text from
\* UnmarshalJSON followed by MarshalText, and every BlockNumber so
\* written comes back identical from MarshalText followed by
\* UnmarshalJSON.
C28_RoundTrip ==
    /\ (bn_out.done /\ bn_in.kind = "text"
          /\ (IsTag(bn_in.text) \/ Quantity(bn_in.text))) => SameText
    /\ (bn_out.done /\ bn_in.kind = "number") => SameNumber

\* C28: the same, except that the quantity 0x0 comes back as "earliest"
\* (it decodes to EarliestBlockNumber, which is 0).
C28_RoundTripButZero ==
    /\ (bn_out.done /\ bn_in.kind = "text"
          /\ (IsTag(bn_in.text) \/ Quantity(bn_in.text))) =>
             IF bn_in.text = ZeroText
                THEN /\ bn_out.err = Nil
                     /\ bn_out.bn = EarliestBlockNumber
                     /\ bn_out.text = <<"earliest">>
                ELSE SameText
    /\ (bn_out.done /\ bn_in.kind = "number") => SameNumber

\* C28 witness: the largest int64, 0x7fffffffffffffff, went through
\* UnmarshalJSON and MarshalText and came back as written.
C28_Witness ==
    /\ bn_out.done /\ bn_in.kind = "text"
    /\ bn_in.text = <<"0", "x">> \o Wide("7", "f", 16)
    /\ Quantity(bn_in.text)
    /\ bn_out.text = bn_in.text
    /\ Len(bn_out.bn.mag) = 16

(***************************************************************************)
(* Client: the write lock of reqInit and reqSent (client.go:63-76)        *)
(*                                                                         *)
(* Three writers (a call, a batch call, a call that finds the connection  *)
(* gone and reconnects) go through send: they hand their requestOp to the *)
(* dispatch loop on reqInit, write on writeConn, and report on reqSent.   *)
(***************************************************************************)
MaxWrites == 2
MaxConns == 3
Writers == 1..3

\* a dispatch loop taking from reqInit whatever is in flight
lockFreeAlways(lock) == TRUE
\* the dispatch loop takes from reqInit only while no request is being
\* sent
lockFree(lock) == lock = 0

\* send: c.reqInit <- op is taken by the dispatch loop
reqInit(w) ==
    /\ k_pc[w] = "idle" /\ k_done[w] < MaxWrites
    /\ lockFree(k_lock)
    /\ k_lock' = w
    /\ k_pc' = [k_pc EXCEPT ![w] = "write"]
    /\ UNCHANGED <<k_done, k_conn>>

\* write: c.writeConn is nil, the writer reconnects first
reconnect(w) ==
    /\ k_pc[w] = "write" /\ k_conn = 0
    /\ \E c \in 2..MaxConns : k_conn' = c
    /\ UNCHANGED <<k_lock, k_pc, k_done>>

\* write: writeJSON on c.writeConn; on an error writeConn is set to nil
write(w, ok) ==
    /\ k_pc[w] = "write" /\ k_conn # 0
    /\ k_pc' = [k_pc EXCEPT ![w] = "sent"]
    /\ k_conn' = IF ok THEN k_conn ELSE 0
    /\ UNCHANGED <<k_lock, k_done>>

\* send: c.reqSent <- err gives the lock back
reqSent(w) ==
    /\ k_pc[w] = "sent"
    /\ k_lock' = IF k_lock = w THEN 0 ELSE k_lock
    /\ k_pc' = [k_pc EXCEPT ![w] = "idle"]
    /\ k_done' = [k_done EXCEPT ![w] = @ + 1]
    /\ UNCHANGED k_conn

InitK ==
    /\ InitConn /\ InitNotifier /\ InitBatchIdle /\ InitServeIdle
    /\ InitClientSub
    /\ InitHandler
    /\ InitRest
    /\ InitJsonIdle /\ InitRegistry /\ InitTypesIdle /\ InitClient /\ InitFunSub

ClientOnly ==
    UNCHANGED <<cvars, nvars, bvars, svars, uvars, hvars, jvars, gvars,
                tvars, fvars,
                xvars,
                yvars,
                zvars,
                rvars>>

NextK ==
    \/ \E w \in Writers : reqInit(w) /\ ClientOnly
    \/ \E w \in Writers : reconnect(w) /\ ClientOnly
    \/ \E w \in Writers, ok \in BOOLEAN : write(w, ok) /\ ClientOnly
    \/ \E w \in Writers : reqSent(w) /\ ClientOnly

SpecClient == InitK /\ [][NextK]_vars

\* the writers between reqInit and reqSent
Writing == {w \in Writers : k_pc[w] \in {"write", "sent"}}

\* C29: at most one writer is between reqInit and reqSent at any time, it
\* is the holder of the write lock, and a writer gets past reqInit (to
\* write or to reconnect) only when no other is in between.
C29_WriteExclusive ==
    /\ [](Cardinality(Writing) <= 1)
    /\ [](\A w \in Writing : k_lock = w)
    /\ [][\A w \in Writers :
             (w \notin Writing /\ w \in Writing') => Writing = {}]_vars
    /\ [][k_conn' # k_conn => Writing # {}]_vars

\* C29 witness: writer 1 wrote and gave the lock back, writer 3 holds it
\* now and has reconnected, writer 2 still waits at reqInit.
C29_Witness ==
    /\ k_done[1] = 1 /\ k_pc[1] = "idle"
    /\ k_lock = 3 /\ k_pc[3] = "write" /\ k_conn = 2
    /\ k_pc[2] = "idle" /\ k_done[2] = 0

(***************************************************************************)
(* event.NewSubscription and funSub.Unsubscribe (event/subscription.go)   *)
(***************************************************************************)
MaxCalls == 2
MaxReads == 2
Callers == 1..2
errInts == "errInts"

\* the producer returns, with an error or without, of itself or because
\* s.unsub was closed
ProducerReturn(err) ==
    /\ fs_pc = "run"
    /\ fs_pc' = "ret" /\ fs_ret' = err
    /\ fs_early' = \A x \in Callers : fs_u[x] = "idle" /\ fs_calls[x] = 0
    /\ UNCHANGED <<fs_mu, fs_unsubscribed, fs_unsub, fs_err, fs_u, fs_calls,
                   fs_reads>>

\* the goroutine of NewSubscription takes s.mu
ProducerLock ==
    /\ fs_pc = "ret" /\ fs_mu = "free"
    /\ fs_pc' = "locked" /\ fs_mu' = "producer"
    /\ UNCHANGED <<fs_ret, fs_early, fs_unsubscribed, fs_unsub, fs_err, fs_u,
                   fs_calls, fs_reads>>

\* a goroutine that sends the error whatever s.unsubscribed says
sendErrAlways(ch, unsubscribed, err) ==
    IF err # Nil
       THEN [ch EXCEPT !.buf = Append(@, err), !.sent = Append(@, err)]
       ELSE ch
\* if !s.unsubscribed { if err != nil { s.err <- err } }
sendErr(ch, unsubscribed, err) ==
    IF ~unsubscribed /\ err # Nil
       THEN [ch EXCEPT !.buf = Append(@, err), !.sent = Append(@, err)]
       ELSE ch

\* the goroutine's critical section and the deferred s.mu.Unlock; the
\* send needs room in the buffer of one
ProducerBody ==
    /\ fs_pc = "locked"
    /\ Len(sendErr(fs_err, fs_unsubscribed, fs_ret).buf) <= 1
    /\ fs_err' = sendErr(fs_err, fs_unsubscribed, fs_ret)
    /\ fs_unsubscribed' = TRUE
    /\ fs_mu' = "free" /\ fs_pc' = "unlocked"
    /\ UNCHANGED <<fs_ret, fs_early, fs_unsub, fs_u, fs_calls, fs_reads>>

\* the deferred close(s.err)
ProducerClose ==
    /\ fs_pc = "unlocked"
    /\ fs_err' = [fs_err EXCEPT !.closes = @ + 1]
    /\ fs_pc' = "done"
    /\ UNCHANGED <<fs_ret, fs_early, fs_mu, fs_unsubscribed, fs_unsub, fs_u,
                   fs_calls, fs_reads>>

\* Unsubscribe: s.mu.Lock()
UnsubLock(x) ==
    /\ fs_u[x] = "idle" /\ fs_calls[x] < MaxCalls
    /\ fs_mu = "free"
    /\ fs_mu' = "caller"
    /\ fs_u' = [fs_u EXCEPT ![x] = "locked"]
    /\ UNCHANGED <<fs_pc, fs_ret, fs_early, fs_unsubscribed, fs_unsub, fs_err,
                   fs_calls, fs_reads>>

\* Unsubscribe under the lock: return if already unsubscribed, else mark,
\* close(s.unsub), unlock and go to wait
UnsubBody(x) ==
    /\ fs_u[x] = "locked"
    /\ fs_mu' = "free"
    /\ IF fs_unsubscribed
          THEN /\ fs_u' = [fs_u EXCEPT ![x] = "idle"]
               /\ fs_calls' = [fs_calls EXCEPT ![x] = @ + 1]
               /\ UNCHANGED <<fs_unsubscribed, fs_unsub>>
          ELSE /\ fs_unsubscribed' = TRUE
               /\ fs_unsub' = fs_unsub + 1
               /\ fs_u' = [fs_u EXCEPT ![x] = "wait"]
               /\ UNCHANGED fs_calls
    /\ UNCHANGED <<fs_pc, fs_ret, fs_early, fs_err, fs_reads>>

\* Unsubscribe: <-s.err, a buffered value or the close
UnsubWait(x) ==
    /\ fs_u[x] = "wait"
    /\ fs_err.buf # <<>> \/ fs_err.closes > 0
    /\ fs_err' = [fs_err EXCEPT !.buf = IF @ = <<>> THEN @ ELSE Tail(@)]
    /\ fs_u' = [fs_u EXCEPT ![x] = "idle"]
    /\ fs_calls' = [fs_calls EXCEPT ![x] = @ + 1]
    /\ UNCHANGED <<fs_pc, fs_ret, fs_early, fs_mu, fs_unsubscribed, fs_unsub,
                   fs_reads>>

\* the consumer's err, ok := <-sub.Err()
ErrRecv ==
    /\ Len(fs_reads) < MaxReads
    /\ fs_err.buf # <<>> \/ fs_err.closes > 0
    /\ fs_reads' = Append(fs_reads,
           IF fs_err.buf # <<>> THEN [err |-> fs_err.buf[1], ok |-> TRUE]
           ELSE [err |-> Nil, ok |-> FALSE])
    /\ fs_err' = [fs_err EXCEPT !.buf = IF @ = <<>> THEN @ ELSE Tail(@)]
    /\ UNCHANGED <<fs_pc, fs_ret, fs_early, fs_mu, fs_unsubscribed, fs_unsub,
                   fs_u, fs_calls>>

InitF ==
    /\ InitConn /\ InitNotifier /\ InitBatchIdle /\ InitServeIdle
    /\ InitClientSub
    /\ InitHandler
    /\ InitRest
    /\ InitJsonIdle /\ InitRegistry /\ InitTypesIdle /\ InitClient
    /\ InitFunSub

FunSubOnly ==
    UNCHANGED <<cvars, nvars, bvars, svars, uvars, hvars, jvars, gvars,
                tvars, kvars,
                xvars,
                yvars,
                zvars,
                rvars>>

NextF ==
    \/ \E err \in {Nil, errInts} : ProducerReturn(err) /\ FunSubOnly
    \/ ProducerLock /\ FunSubOnly
    \/ ProducerBody /\ FunSubOnly
    \/ ProducerClose /\ FunSubOnly
    \/ \E x \in Callers : UnsubLock(x) /\ FunSubOnly
    \/ \E x \in Callers : UnsubBody(x) /\ FunSubOnly
    \/ \E x \in Callers : UnsubWait(x) /\ FunSubOnly
    \/ ErrRecv /\ FunSubOnly

SpecFunSub == InitF /\ [][NextF]_vars

\* some Unsubscribe call has returned
Unsubscribed == \E x \in Callers : fs_calls[x] > 0
\* the goroutine of NewSubscription is through its critical section
PastBody == fs_pc \in {"unlocked", "done"}

\* closing never happens twice, and an Unsubscribe that finds the
\* subscription unsubscribed changes nothing
NoDoubleClose ==
    /\ [](fs_unsub <= 1 /\ fs_err.closes <= 1)
    /\ [][\A x \in Callers :
             (fs_u[x] = "locked" /\ fs_u'[x] = "idle") =>
                 UNCHANGED <<fs_unsubscribed, fs_unsub, fs_err, fs_pc>>]_vars

\* only the first caller has called Unsubscribe
SoleCaller == fs_u[2] = "idle" /\ fs_calls[2] = 0

\* C30 as stated: an error the producer returned before any Unsubscribe
\* call is delivered on Err(), exactly once; once an Unsubscribe has
\* returned (one caller's calls, one after the other, are looked at) the
\* producer has stopped, Err() is closed and holds nothing, so that a
\* read yields nil and ok = false; nothing is closed twice.
C30_NewSubscription ==
    /\ [](PastBody /\ fs_ret # Nil /\ fs_early => fs_err.sent = <<fs_ret>>)
    /\ []((Unsubscribed /\ SoleCaller) =>
             /\ fs_pc # "run"
             /\ fs_err.closes = 1 /\ fs_err.buf = <<>>)
    /\ NoDoubleClose

\* C30: an error the producer returned is delivered on Err(), exactly
\* once, if the producer's goroutine takes the lock before any
\* Unsubscribe does, and dropped otherwise; the Unsubscribe call that does
\* the unsubscribing returns only when the producer has stopped and Err()
\* is closed and empty; a call that finds the subscription ended returns
\* at once, and if it ended through the producer (no call closed s.unsub)
\* the producer has stopped and its goroutine has only the close of Err()
\* left to do; the consumer reads the delivered error at most once and
\* first, and nil with ok = false only from the closed channel; nothing
\* is closed twice.
C30_NewSubscriptionLockOrder ==
    /\ [][(fs_pc = "locked" /\ fs_pc' = "unlocked") =>
             fs_err'.sent = IF fs_ret # Nil /\ ~fs_unsubscribed
                               THEN <<fs_ret>> ELSE <<>>]_vars
    /\ [](Len(fs_err.sent) <= 1)
    /\ [][\A x \in Callers :
             (fs_u[x] = "wait" /\ fs_u'[x] = "idle") =>
                 fs_pc = "done" /\ fs_err.closes = 1 /\ fs_err.buf = <<>>]_vars
    /\ []((Unsubscribed /\ fs_unsub = 0) => PastBody)
    /\ [](\A i \in 1..Len(fs_reads) :
             IF fs_reads[i].ok
                THEN i = 1 /\ fs_err.sent = <<fs_reads[i].err>>
                ELSE fs_reads[i].err = Nil /\ fs_pc = "done")
    /\ NoDoubleClose

\* C30 witness: the producer failed, the consumer read the error, then
\* Unsubscribe was called twice, and the consumer's next read found Err()
\* closed.
C30_Witness ==
    /\ fs_ret = errInts /\ fs_early
    /\ fs_calls[1] = 2
    /\ fs_reads = <<[err |-> errInts, ok |-> TRUE], [err |-> Nil, ok |-> FALSE]>>
    /\ fs_err.closes = 1 /\ fs_unsub = 0

(***************************************************************************)
(* TypeMux (event/event.go:24-201)                                        *)
(***************************************************************************)
MaxPosts == 2
MaxStops == 2
MaxUnsubs == 2
MuxSubs == 1..2
MuxTypes == {"A", "B"}
ErrMuxClosed == "event: mux closed"

\* slice without item
RECURSIVE without(_, _)
without(slice, item) ==
    IF slice = <<>> THEN <<>>
    ELSE IF Head(slice) = item THEN without(Tail(slice), item)
    ELSE <<Head(slice)>> \o without(Tail(slice), item)

\* Subscribe on a stopped mux closing postC without marking the
\* subscription closed
subscribeStoppedUnmarked(sub) == [sub EXCEPT !.postC = @ + 1]
\* Subscribe on a stopped mux: sub.closed = true; close(sub.postC)
subscribeStopped(sub) == [sub EXCEPT !.closed = TRUE, !.postC = @ + 1]

\* newsub, then Subscribe under mux.mutex
MuxSubscribe(s, types) ==
    /\ ~mx_sub[s].made /\ mx_mutex = "free"
    /\ LET sub == [NoMuxSub EXCEPT !.made = TRUE]
       IN  IF mx_stopped
              THEN /\ mx_sub' = [mx_sub EXCEPT ![s] = subscribeStopped(sub)]
                   /\ UNCHANGED mx_subm
              ELSE /\ mx_sub' = [mx_sub EXCEPT ![s] = sub]
                   /\ mx_subm' = [t \in MuxTypes |->
                          IF t \in types THEN Append(mx_subm[t], s)
                          ELSE mx_subm[t]]
    /\ UNCHANGED <<mx_stopped, mx_mutex, mx_closeMu, mx_got, mx_post, mx_stop,
                   mx_unsub, mx_fault>>

\* Post: the event is made and stamped with the time
PostEvent(t) ==
    /\ mx_post.pc = "idle" /\ mx_post.n < MaxPosts
    /\ mx_post' = [mx_post EXCEPT !.pc = "read", !.ev = [type |-> t, n |-> mx_post.n + 1],
                      !.before = {s \in MuxSubs : mx_sub[s].made}]
    /\ UNCHANGED <<mx_subm, mx_stopped, mx_mutex, mx_sub, mx_closeMu, mx_got,
                   mx_stop, mx_unsub, mx_fault>>

\* Post under mux.mutex.RLock: ErrMuxClosed if stopped, else the type's
\* subscriptions
PostRead ==
    /\ mx_post.pc = "read" /\ mx_mutex = "free"
    /\ mx_post' = IF mx_stopped
          THEN [mx_post EXCEPT !.pc = "idle", !.n = @ + 1, !.res = ErrMuxClosed]
          ELSE [mx_post EXCEPT !.pc = "next", !.subs = mx_subm[mx_post.ev.type]]
    /\ UNCHANGED <<mx_subm, mx_stopped, mx_mutex, mx_sub, mx_closeMu, mx_got,
                   mx_stop, mx_unsub, mx_fault>>

\* Post's loop: return nil at the end; deliver skips a subscription made
\* after the event, and takes postMu.RLock otherwise
PostNext ==
    /\ mx_post.pc = "next"
    /\ mx_post' =
          IF mx_post.subs = <<>>
             THEN [mx_post EXCEPT !.pc = "idle", !.n = @ + 1, !.res = Nil]
          ELSE IF Head(mx_post.subs) \notin mx_post.before
             THEN [mx_post EXCEPT !.subs = Tail(@)]
          ELSE [mx_post EXCEPT !.pc = "select"]
    /\ UNCHANGED <<mx_subm, mx_stopped, mx_mutex, mx_sub, mx_closeMu, mx_got,
                   mx_stop, mx_unsub, mx_fault>>

\* the subscription deliver is selecting on, 0 if none
Delivering == IF mx_post.pc = "select" THEN Head(mx_post.subs) ELSE 0

\* deliver: case s.postC <- event, taken by the consumer; a send on a
\* closed channel panics
DeliverSend ==
    /\ mx_post.pc = "select"
    /\ LET s == Head(mx_post.subs)
       IN  /\ ~mx_sub[s].postNil
           /\ IF mx_sub[s].postC > 0
                 THEN /\ mx_fault' = "send on closed channel"
                      /\ UNCHANGED mx_got
                 ELSE /\ mx_got' = [mx_got EXCEPT ![s] = Append(@, mx_post.ev)]
                      /\ UNCHANGED mx_fault
    /\ mx_post' = [mx_post EXCEPT !.pc = "next", !.subs = Tail(@)]
    /\ UNCHANGED <<mx_subm, mx_stopped, mx_mutex, mx_sub, mx_closeMu, mx_stop,
                   mx_unsub>>

\* deliver: case <-s.closing
DeliverClosing ==
    /\ mx_post.pc = "select"
    /\ mx_sub[Head(mx_post.subs)].closing > 0
    /\ mx_post' = [mx_post EXCEPT !.pc = "next", !.subs = Tail(@)]
    /\ UNCHANGED <<mx_subm, mx_stopped, mx_mutex, mx_sub, mx_closeMu, mx_got,
                   mx_stop, mx_unsub, mx_fault>>

\* closewait on a subscription not yet closed: close(s.closing), closed
closeBegin(sub) == [sub EXCEPT !.closing = @ + 1, !.closed = TRUE]
\* closewait under postMu: close(s.postC); s.postC = nil
closeEnd(sub) == [sub EXCEPT !.postC = @ + 1, !.postNil = TRUE]

\* Unsubscribe: s.mux.del(s)
UnsubDel(s) ==
    /\ mx_sub[s].made /\ mx_unsub[s].pc = "idle" /\ mx_unsub[s].n < MaxUnsubs
    /\ mx_mutex = "free"
    /\ mx_subm' = [t \in MuxTypes |-> without(mx_subm[t], s)]
    /\ mx_unsub' = [mx_unsub EXCEPT ![s].pc = "closewait"]
    /\ UNCHANGED <<mx_stopped, mx_mutex, mx_sub, mx_closeMu, mx_got, mx_post,
                   mx_stop, mx_fault>>

\* Unsubscribe: closewait takes closeMu and returns if s.closed
UnsubCloseBegin(s) ==
    /\ mx_unsub[s].pc = "closewait" /\ mx_closeMu[s] = "free"
    /\ IF mx_sub[s].closed
          THEN /\ mx_unsub' = [mx_unsub EXCEPT ![s].pc = "idle", ![s].n = @ + 1]
               /\ UNCHANGED <<mx_sub, mx_closeMu>>
          ELSE /\ mx_sub' = [mx_sub EXCEPT ![s] = closeBegin(@)]
               /\ mx_closeMu' = [mx_closeMu EXCEPT ![s] = "unsub"]
               /\ mx_unsub' = [mx_unsub EXCEPT ![s].pc = "closing"]
    /\ UNCHANGED <<mx_subm, mx_stopped, mx_mutex, mx_got, mx_post, mx_stop,
                   mx_fault>>

\* Unsubscribe: closewait gets postMu once no deliver holds it
UnsubCloseEnd(s) ==
    /\ mx_unsub[s].pc = "closing" /\ Delivering # s
    /\ mx_sub' = [mx_sub EXCEPT ![s] = closeEnd(@)]
    /\ mx_closeMu' = [mx_closeMu EXCEPT ![s] = "free"]
    /\ mx_unsub' = [mx_unsub EXCEPT ![s].pc = "idle", ![s].n = @ + 1]
    /\ UNCHANGED <<mx_subm, mx_stopped, mx_mutex, mx_got, mx_post, mx_stop,
                   mx_fault>>

\* Stop: mux.mutex.Lock, then the range over mux.subm in either order
StopLock ==
    /\ mx_stop.pc = "idle" /\ mx_stop.n < MaxStops
    /\ mx_mutex = "free"
    /\ mx_mutex' = "stop"
    /\ \E todo \in {mx_subm["A"] \o mx_subm["B"], mx_subm["B"] \o mx_subm["A"]} :
          mx_stop' = [mx_stop EXCEPT !.pc = "range", !.todo = todo]
    /\ UNCHANGED <<mx_subm, mx_stopped, mx_sub, mx_closeMu, mx_got, mx_post,
                   mx_unsub, mx_fault>>

\* Stop: sub.closewait takes closeMu and returns if s.closed
StopCloseBegin ==
    /\ mx_stop.pc = "range" /\ mx_stop.todo # <<>>
    /\ LET s == Head(mx_stop.todo)
       IN  /\ mx_closeMu[s] = "free"
           /\ IF mx_sub[s].closed
                 THEN /\ mx_stop' = [mx_stop EXCEPT !.todo = Tail(@)]
                      /\ UNCHANGED <<mx_sub, mx_closeMu>>
                 ELSE /\ mx_sub' = [mx_sub EXCEPT ![s] = closeBegin(@)]
                      /\ mx_closeMu' = [mx_closeMu EXCEPT ![s] = "stop"]
                      /\ mx_stop' = [mx_stop EXCEPT !.pc = "closing"]
    /\ UNCHANGED <<mx_subm, mx_stopped, mx_mutex, mx_got, mx_post, mx_unsub,
                   mx_fault>>

\* Stop: closewait gets postMu once no deliver holds it
StopCloseEnd ==
    /\ mx_stop.pc = "closing"
    /\ LET s == Head(mx_stop.todo)
       IN  /\ Delivering # s
           /\ mx_sub' = [mx_sub EXCEPT ![s] = closeEnd(@)]
           /\ mx_closeMu' = [mx_closeMu EXCEPT ![s] = "free"]
    /\ mx_stop' = [mx_stop EXCEPT !.pc = "range", !.todo = Tail(@)]
    /\ UNCHANGED <<mx_subm, mx_stopped, mx_mutex, mx_got, mx_post, mx_unsub,
                   mx_fault>>

\* Stop: mux.subm = nil; mux.stopped = true; Unlock
StopEnd ==
    /\ mx_stop.pc = "range" /\ mx_stop.todo = <<>>
    /\ mx_subm' = [t \in MuxTypes |-> <<>>]
    /\ mx_stopped' = TRUE /\ mx_mutex' = "free"
    /\ mx_stop' = [mx_stop EXCEPT !.pc = "idle", !.n = @ + 1]
    /\ UNCHANGED <<mx_sub, mx_closeMu, mx_got, mx_post, mx_unsub, mx_fault>>

MuxOnly ==
    UNCHANGED <<cvars, nvars, bvars, svars, uvars, hvars, jvars, gvars,
                tvars, kvars, fvars,
                yvars,
                zvars,
                rvars>>

NextX ==
    \/ \E s \in MuxSubs, types \in SUBSET MuxTypes :
          MuxSubscribe(s, types) /\ MuxOnly
    \/ \E t \in MuxTypes : PostEvent(t) /\ MuxOnly
    \/ PostRead /\ MuxOnly
    \/ PostNext /\ MuxOnly
    \/ DeliverSend /\ MuxOnly
    \/ DeliverClosing /\ MuxOnly
    \/ \E s \in MuxSubs : UnsubDel(s) /\ MuxOnly
    \/ \E s \in MuxSubs : UnsubCloseBegin(s) /\ MuxOnly
    \/ \E s \in MuxSubs : UnsubCloseEnd(s) /\ MuxOnly
    \/ StopLock /\ MuxOnly
    \/ StopCloseBegin /\ MuxOnly
    \/ StopCloseEnd /\ MuxOnly
    \/ StopEnd /\ MuxOnly

SpecMux == InitH /\ [][NextX]_vars

\* C31: on a stopped mux, Post returns ErrMuxClosed and delivers nothing,
\* and Subscribe returns a subscription whose channel is closed and which
\* the mux does not hold; no Unsubscribe and no Stop closes a channel a
\* second time, and nothing is sent on a closed channel.
C31_AfterStop ==
    /\ [][(mx_post.pc = "read" /\ mx_post'.pc # "read" /\ mx_stopped) =>
             /\ mx_post'.res = ErrMuxClosed /\ mx_post'.pc = "idle"
             /\ mx_got' = mx_got]_vars
    /\ [][\A s \in MuxSubs :
             (~mx_sub[s].made /\ mx_sub'[s].made /\ mx_stopped) =>
                 /\ mx_sub'[s].postC = 1
                 /\ mx_subm' = mx_subm]_vars
    /\ [](mx_stopped => \A t \in MuxTypes : mx_subm[t] = <<>>)
    /\ [](mx_fault = "none")
    /\ [](\A s \in MuxSubs : mx_sub[s].postC <= 1 /\ mx_sub[s].closing <= 1)

\* C31 witness: subscription 1 received an event, Stop closed it, and it
\* was unsubscribed afterwards; subscription 2 was made on the stopped
\* mux, with its channel closed, and unsubscribed; a Post on the stopped
\* mux returned ErrMuxClosed.
C31_Witness ==
    /\ mx_stopped /\ mx_stop.n = 1
    /\ mx_got[1] # <<>> /\ mx_sub[1].closing = 1 /\ mx_unsub[1].n = 1
    /\ mx_sub[2].made /\ mx_sub[2].closing = 0 /\ mx_sub[2].postC = 1
    /\ mx_unsub[2].n = 1 /\ mx_got[2] = <<>>
    /\ mx_post.res = ErrMuxClosed /\ mx_post.pc = "idle"

(***************************************************************************)
(* Feed (event/event_test.go:150-347)                                     *)
(***************************************************************************)
MaxSends == 3
ElemTypes == {"int", "uint64"}
RecvCase == SelectCase(0, FALSE)
ZeroCase == SelectCase(-1, FALSE)

\* caseList.find: the index (from 0) of the first case on channel c, or -1
find(cs, c) ==
    IF \E k \in 1..Len(cs) : cs[k].ch = c
       THEN (CHOOSE k \in 1..Len(cs) :
                cs[k].ch = c /\ \A j \in 1..(k - 1) : cs[j].ch # c) - 1
       ELSE -1

\* a delete that keeps the cases after index
deleteTail(cs, index) == SubSeq(cs, 1, index) \o SubSeq(cs, index + 2, Len(cs))
\* caseList.delete: append(cs[:index], cs[:index+1]...)
delete(cs, index) == SubSeq(cs, 1, index) \o SubSeq(cs, 1, index + 1)

\* the array holding the result of an append to a slice of arr starting at
\* its first element: arr itself when the result fits, else a new array of
\* capacity cap
appended(arr, res, cap) ==
    IF Len(res) <= Len(arr)
       THEN res \o SubSeq(arr, Len(res) + 1, Len(arr))
       ELSE res \o [k \in 1..(cap - Len(res)) |-> ZeroCase]

\* the capacities append may give a new array for n elements
Capacities(arr, n) == IF n <= Len(arr) THEN {Len(arr)} ELSE {n, n + 1}

\* caseList.deactivate on the first n elements of arr
deactivate(arr, n, index) ==
    [arr EXCEPT ![index + 1] = arr[n], ![n] = arr[index + 1]]

\* a typecheck that accepts every type
typecheckAny(etype, typ) == TRUE
\* Feed.typecheck: its result
typecheck(etype, typ) == etype = "nil" \/ etype = typ
\* Feed.typecheck: f.etype afterwards
typecheckEtype(etype, typ) == IF etype = "nil" THEN typ ELSE etype

sendCases == SubSeq(fd_arr, 1, fd_len)

\* Feed.Subscribe of a chan int
FeedSubscribe(c) ==
    /\ fd_sub[c] = "none"
    /\ IF typecheck(fd_etype, "int")
          THEN /\ fd_etype' = typecheckEtype(fd_etype, "int")
               /\ fd_inbox' = Append(fd_inbox, SelectCase(c, FALSE))
               /\ fd_sub' = [fd_sub EXCEPT ![c] = "subscribed"]
               /\ UNCHANGED fd_fault
          ELSE /\ fd_fault' = "feedTypeError Subscribe"
               /\ fd_sub' = [fd_sub EXCEPT ![c] = "refused"]
               /\ UNCHANGED <<fd_etype, fd_inbox>>
    /\ UNCHANGED <<fd_arr, fd_len, fd_sendLock, fd_send, fd_rm, fd_got, fd_ret>>

\* Send: <-f.sendLock
SendLock(typ) ==
    /\ fd_send.pc = "idle" /\ fd_send.n < MaxSends /\ fd_sendLock
    /\ fd_sendLock' = FALSE
    /\ fd_send' = [fd_send EXCEPT !.pc = "locked", !.typ = typ, !.nsent = 0,
                      !.to = {}]
    /\ UNCHANGED <<fd_etype, fd_inbox, fd_arr, fd_len, fd_rm, fd_sub, fd_got,
                   fd_ret, fd_fault>>

\* Send under f.mu: the inbox joins sendCases, then the typecheck; on a
\* mismatch the lock is handed back and Send panics, else the Send values
\* are set and cases = f.sendCases
SendInbox ==
    /\ fd_send.pc = "locked"
    /\ fd_inbox' = <<>>
    /\ LET res == sendCases \o fd_inbox
       IN  \E cap \in Capacities(fd_arr, Len(res)) :
           LET arr == appended(fd_arr, res, cap)
           IN  /\ fd_len' = Len(res)
               /\ IF typecheck(fd_etype, fd_send.typ)
                     THEN /\ fd_arr' = [k \in 1..Len(arr) |->
                                 IF k \in 2..Len(res)
                                    THEN [arr[k] EXCEPT !.send = TRUE]
                                    ELSE arr[k]]
                          /\ fd_etype' = typecheckEtype(fd_etype, fd_send.typ)
                          /\ fd_send' = [fd_send EXCEPT !.pc = "try", !.i = 1,
                                 !.cases = [own |-> <<>>, len |-> Len(res),
                                            shared |-> TRUE]]
                          /\ UNCHANGED <<fd_sendLock, fd_fault>>
                     ELSE /\ fd_arr' = arr
                          /\ fd_sendLock' = TRUE
                          /\ fd_fault' = "feedTypeError Send"
                          /\ fd_send' = [fd_send EXCEPT !.pc = "idle", !.n = @ + 1]
                          /\ UNCHANGED fd_etype
    /\ UNCHANGED <<fd_rm, fd_sub, fd_got, fd_ret>>

\* the array Send's cases slice lies in
CasesArr == IF fd_send.cases.shared THEN fd_arr ELSE fd_send.cases.own

\* Send panics, keeping the send lock
SendPanic(what) ==
    /\ fd_fault' = what
    /\ fd_send' = [fd_send EXCEPT !.pc = "idle", !.n = @ + 1]
    /\ UNCHANGED <<fd_arr, fd_len, fd_got>>

\* the value is received from cases[index]: nsent++ and deactivate
Delivered(index) ==
    LET c == CasesArr[index + 1].ch
        arr == deactivate(CasesArr, fd_send.cases.len, index)
    IN  /\ fd_got' = IF c > 0 THEN [fd_got EXCEPT ![c] = Append(@, fd_send.n + 1)]
                     ELSE fd_got
        /\ fd_send' = [fd_send EXCEPT !.pc = "try", !.nsent = @ + 1,
               !.to = IF c > 0 THEN @ \cup {c} ELSE @,
               !.i = IF fd_send.pc = "try" THEN @ ELSE 1,
               !.cases = [own |-> IF fd_send.cases.shared THEN <<>> ELSE arr,
                          len |-> fd_send.cases.len - 1,
                          shared |-> fd_send.cases.shared]]
        /\ fd_arr' = IF fd_send.cases.shared THEN arr ELSE fd_arr
        /\ UNCHANGED <<fd_len, fd_fault>>

\* Send's fast path at cases[i]: TrySend succeeds if the channel's reader
\* is ready; after the last case, break or go to Select
SendTry ==
    /\ fd_send.pc = "try"
    /\ IF fd_send.i >= fd_send.cases.len
          THEN /\ fd_send' = [fd_send EXCEPT !.pc =
                      IF fd_send.cases.len = 1 THEN "end" ELSE "select"]
               /\ UNCHANGED <<fd_arr, fd_len, fd_got, fd_fault>>
          ELSE LET e == CasesArr[fd_send.i + 1]
               IN  IF e.ch = -1
                      THEN SendPanic("reflect: TrySend on zero Value")
                      ELSE \/ /\ e.ch > 0
                              /\ Delivered(fd_send.i)
                           \/ /\ fd_send' = [fd_send EXCEPT !.i = @ + 1]
                              /\ UNCHANGED <<fd_arr, fd_len, fd_got, fd_fault>>
    /\ UNCHANGED <<fd_etype, fd_inbox, fd_sendLock, fd_rm, fd_sub, fd_ret>>

\* reflect.Select refuses a zero case, a receive case with a Send value and
\* a send case without one
BadCases ==
    \E k \in 2..fd_send.cases.len :
        LET e == CasesArr[k]
        IN  e.ch = -1 \/ (e.ch = 0 /\ e.send) \/ (e.ch > 0 /\ ~e.send)

\* reflect.Select panics on the cases
SendSelectPanic ==
    /\ fd_send.pc = "select" /\ BadCases
    /\ SendPanic("reflect.Select")
    /\ UNCHANGED <<fd_etype, fd_inbox, fd_sendLock, fd_rm, fd_sub, fd_ret>>

\* reflect.Select chooses a send case whose reader is ready
SendSelectSend(index) ==
    /\ fd_send.pc = "select" /\ ~BadCases
    /\ index \in 1..(fd_send.cases.len - 1)
    /\ CasesArr[index + 1].ch > 0
    /\ Delivered(index)
    /\ UNCHANGED <<fd_etype, fd_inbox, fd_sendLock, fd_rm, fd_sub, fd_ret>>

\* reflect.Select chooses a receive case on f.removeSub while remove of
\* channel c is sending on it: case 0 deletes the channel from
\* f.sendCases and shrinks cases, another receive case counts as a send
SendSelectRemove(c, chosen) ==
    /\ fd_send.pc = "select" /\ ~BadCases
    /\ fd_rm[c] = "select"
    /\ chosen \in 0..(fd_send.cases.len - 1)
    /\ CasesArr[chosen + 1].ch = 0
    /\ fd_rm' = [fd_rm EXCEPT ![c] = "done"]
    /\ fd_sub' = [fd_sub EXCEPT ![c] = "unsubscribed"]
    /\ IF chosen # 0
          THEN Delivered(chosen)
          ELSE LET index == find(sendCases, c)
               IN  IF index = -1
                      THEN SendPanic("slice bounds out of range")
                      ELSE LET res == delete(sendCases, index)
                           IN  \E cap \in Capacities(fd_arr, Len(res)) :
                               LET arr == appended(fd_arr, res, cap)
                                   moved == Len(res) > Len(fd_arr)
                               IN  IF index < fd_send.cases.len
                                      THEN IF fd_send.cases.len - 1 > Len(arr)
                                              THEN /\ fd_fault' = "slice bounds out of range"
                                                   /\ fd_send' = [fd_send EXCEPT !.pc = "idle", !.n = @ + 1]
                                                   /\ fd_arr' = arr /\ fd_len' = Len(res)
                                                   /\ UNCHANGED fd_got
                                              ELSE /\ fd_arr' = arr /\ fd_len' = Len(res)
                                                   /\ fd_send' = [fd_send EXCEPT !.pc = "try", !.i = 1,
                                                          !.cases = [own |-> <<>>,
                                                                     len |-> fd_send.cases.len - 1,
                                                                     shared |-> TRUE]]
                                                   /\ UNCHANGED <<fd_got, fd_fault>>
                                      ELSE /\ fd_arr' = arr /\ fd_len' = Len(res)
                                           /\ fd_send' = [fd_send EXCEPT !.pc = "try", !.i = 1,
                                                  !.cases = IF fd_send.cases.shared /\ moved
                                                     THEN [own |-> fd_arr, len |-> fd_send.cases.len,
                                                           shared |-> FALSE]
                                                     ELSE @]
                                           /\ UNCHANGED <<fd_got, fd_fault>>
    /\ UNCHANGED <<fd_etype, fd_inbox, fd_sendLock, fd_ret>>

\* Send's end: the Send values are forgotten, the lock handed back
SendEnd ==
    /\ fd_send.pc = "end"
    /\ fd_arr' = [k \in 1..Len(fd_arr) |->
          IF k \in 2..fd_len THEN [fd_arr[k] EXCEPT !.send = FALSE]
          ELSE fd_arr[k]]
    /\ fd_sendLock' = TRUE
    /\ fd_ret' = [nsent |-> fd_send.nsent, delivered |-> Cardinality(fd_send.to)]
    /\ fd_send' = [fd_send EXCEPT !.pc = "idle", !.n = @ + 1,
                      !.cases = NoCases, !.to = {}]
    /\ UNCHANGED <<fd_etype, fd_inbox, fd_len, fd_rm, fd_sub, fd_got, fd_fault>>

\* feedSub.Unsubscribe, Feed.remove under f.mu: a channel found in the
\* inbox is deleted from it and Unsubscribe returns
RemoveInbox(c) ==
    /\ fd_sub[c] = "subscribed" /\ fd_rm[c] = "idle"
    /\ LET index == find(fd_inbox, c)
       IN  IF index # -1
              THEN /\ fd_inbox' = delete(fd_inbox, index)
                   /\ fd_rm' = [fd_rm EXCEPT ![c] = "done"]
                   /\ fd_sub' = [fd_sub EXCEPT ![c] = "unsubscribed"]
              ELSE /\ fd_rm' = [fd_rm EXCEPT ![c] = "select"]
                   /\ UNCHANGED <<fd_inbox, fd_sub>>
    /\ UNCHANGED <<fd_etype, fd_arr, fd_len, fd_sendLock, fd_send, fd_got,
                   fd_ret, fd_fault>>

\* Feed.remove, case <-f.sendLock: no Send runs, the channel is deleted
\* from f.sendCases and the lock handed back
RemoveLocked(c) ==
    /\ fd_rm[c] = "select" /\ fd_sendLock
    /\ LET index == find(sendCases, c)
       IN  IF index = -1
              THEN /\ fd_fault' = "slice bounds out of range"
                   /\ fd_sendLock' = FALSE
                   /\ fd_rm' = [fd_rm EXCEPT ![c] = "panicked"]
                   /\ fd_sub' = [fd_sub EXCEPT ![c] = "faulted"]
                   /\ UNCHANGED <<fd_arr, fd_len>>
              ELSE LET res == delete(sendCases, index)
                   IN  /\ \E cap \in Capacities(fd_arr, Len(res)) :
                              fd_arr' = appended(fd_arr, res, cap)
                       /\ fd_len' = Len(res)
                       /\ fd_rm' = [fd_rm EXCEPT ![c] = "done"]
                       /\ fd_sub' = [fd_sub EXCEPT ![c] = "unsubscribed"]
                       /\ UNCHANGED <<fd_sendLock, fd_fault>>
    /\ UNCHANGED <<fd_etype, fd_inbox, fd_send, fd_got, fd_ret>>

FeedOnly ==
    UNCHANGED <<cvars, nvars, bvars, svars, uvars, hvars, jvars, gvars,
                tvars, kvars, fvars, xvars,
                zvars,
                rvars>>

NextY ==
    \/ \E c \in FeedChans : FeedSubscribe(c) /\ FeedOnly
    \/ \E typ \in ElemTypes : SendLock(typ) /\ FeedOnly
    \/ SendInbox /\ FeedOnly
    \/ SendTry /\ FeedOnly
    \/ SendSelectPanic /\ FeedOnly
    \/ \E index \in 1..7 : SendSelectSend(index) /\ FeedOnly
    \/ \E c \in FeedChans, chosen \in 0..7 : SendSelectRemove(c, chosen) /\ FeedOnly
    \/ SendEnd /\ FeedOnly
    \/ \E c \in FeedChans : RemoveInbox(c) /\ FeedOnly
    \/ \E c \in FeedChans : RemoveLocked(c) /\ FeedOnly

SpecFeed == InitH /\ [][NextY]_vars

\* C32: f.etype, once set, stays; a Send of a value of another type ends
\* at the typecheck with feedTypeError{op: "Send"}, no channel has
\* received anything from it, and the send lock is back in f.sendLock.
C32_TypeDiscipline ==
    /\ [][fd_etype # "nil" => fd_etype' = fd_etype]_vars
    /\ [][(fd_send.pc = "locked" /\ fd_send' # fd_send /\
           fd_etype \notin {"nil", fd_send.typ}) =>
             /\ fd_fault' = "feedTypeError Send"
             /\ fd_send'.pc = "idle" /\ fd_got' = fd_got
             /\ fd_sendLock']_vars
    /\ [][(fd_send.pc = "locked" /\ fd_send' # fd_send /\
           fd_etype \in {"nil", fd_send.typ}) =>
             fd_send'.pc = "try" /\ fd_etype' = fd_send.typ]_vars

\* C32 witness: after a Send has failed the typecheck, a Send of the
\* feed's type has delivered to a channel and is about to return, and a
\* subscription has been unsubscribed.
C32_Witness ==
    /\ fd_fault = "feedTypeError Send"
    /\ fd_send.pc = "end" /\ fd_send.nsent >= 1
    /\ \E c \in FeedChans : fd_sub[c] = "unsubscribed"

\* the subscribed channels as the feed lists them: sendCases, then inbox
Listed(cases, inbox) ==
    LET all == SubSeq(cases, 2, Len(cases)) \o inbox
    IN  [k \in 1..Len(all) |-> all[k].ch]

\* C38: the step on which Unsubscribe of channel c returns removes
\* exactly c from the channels the feed lists and keeps the others in
\* order; no Send delivers to c afterwards; each Send returns the number
\* of channels it delivered to.
C38_Removal ==
    /\ [][\A c \in FeedChans :
             (fd_sub[c] = "subscribed" /\ fd_sub'[c] = "unsubscribed") =>
                 Listed(sendCases, fd_inbox)' =
                     without(Listed(sendCases, fd_inbox), c)]_vars
    /\ [][\A c \in FeedChans :
             fd_sub[c] = "unsubscribed" => fd_got'[c] = fd_got[c]]_vars
    /\ [](fd_ret.nsent = fd_ret.delivered)
    /\ [](fd_fault \in {"none", "feedTypeError Send", "feedTypeError Subscribe"})

(***************************************************************************)
(* Notifier.activate with failing writes (rpc/subscription.go:143-154)    *)
(***************************************************************************)
\* a write can succeed again after one has failed (a deadline that passed)
ConnMend ==
    /\ ~connOk
    /\ connOk' = TRUE
    /\ UNCHANGED wire

NextNM ==
    \/ CreateSubscription /\ NotifierOnly
    \/ \E p \in NProcs : NotifyMarshalErr(p) /\ NotifierOnly
    \/ \E p \in NProcs, id \in {NewSubID, OtherSubID} :
          NotifyLock(p, id) /\ NotifierOnly
    \/ \E p \in NProcs : NotifyBody(p) /\ NotifierOnly
    \/ takeSubscription /\ NotifierOnly
    \/ SubscribeRespond /\ NotifierOnly
    \/ ActivateLock /\ NotifierOnly
    \/ ActivateSend /\ NotifierOnly
    \/ ActivateDone /\ NotifierOnly
    \/ ConnBreak /\ UNCHANGED nvars /\ NotifierOnly
    \/ ConnMend /\ UNCHANGED nvars /\ NotifierOnly

SpecNotifierMend == InitN /\ [][NextNM]_vars

SubscribeCallReturn ==
    /\ Alive
    /\ h_pc = "running"
    /\ h_pc' = "called"
    /\ UNCHANGED <<cvars, n_sub, n_buffer, n_callReturned, n_activated, n_mu,
                   nt_pc, nt_id, nt_res, lockOrder, c_res, h_panic, a_pc, a_i,
                   a_res, hvars>>

\* handler.addSubscriptions for the call's Notifier, under h.subLock:
\* takeSubscription under n.mu, and the subscription, if there is one,
\* put into serverSubs
AddSubscriptionsTake ==
    /\ Alive
    /\ h_pc = "called"
    /\ n_mu = 0
    /\ n_callReturned' = TRUE
    /\ h_pc' = "returned"
    /\ IF n_sub # NoSub
          THEN /\ serverSubs' = serverSubs \cup {n_sub}
               /\ ss_err' = [ss_err EXCEPT ![n_sub].added = TRUE]
          ELSE UNCHANGED <<serverSubs, ss_err>>
    /\ UNCHANGED <<cvars, n_sub, n_buffer, n_activated, n_mu, nt_pc, nt_id,
                   nt_res, lockOrder, c_res, h_panic, a_pc, a_i, a_res,
                   respWait, op_added, op_err, op_resp, op_closes, clientSubs,
                   cs_subid, cs_runs, cs_quit, us_res, h_msg, wg,
                   rootCancelled, cp_pc, cp_kind, cp_res, hc_pc, hc_arg>>

SubscribeCallOnly == UNCHANGED <<bvars, svars, uvars, lvars>>

NextNS ==
    \/ CreateSubscription /\ NotifierOnly
    \/ SubscribeCallReturn /\ SubscribeCallOnly
    \/ AddSubscriptionsTake /\ SubscribeCallOnly
    \/ \E p \in NProcs, id \in {NewSubID, OtherSubID} :
          NotifyLock(p, id) /\ NotifierOnly
    \/ \E p \in NProcs : NotifyBody(p) /\ NotifierOnly
    \/ SubscribeRespond /\ NotifierOnly
    \/ ActivateLock /\ NotifierOnly
    \/ ActivateSend /\ NotifierOnly
    \/ ActivateDone /\ NotifierOnly

SpecSubscribeCall == InitN /\ [][NextNS]_vars

\* the Subscriptions CreateSubscription returned
Created == {c_res[i] : i \in {j \in 1..Len(c_res) : c_res[j] # "panic"}}

\* C34: a CreateSubscription made after takeSubscription panics and
\* creates nothing; every Subscription CreateSubscription returned is
\* n.sub, which takeSubscription returns, and is in serverSubs from the
\* step of addSubscriptions on; serverSubs gets a Subscription only on
\* that step, which comes after the call has returned.
C34_CreateOrTake ==
    /\ [][(n_callReturned /\ c_res' # c_res) =>
             /\ c_res' = Append(c_res, "panic")
             /\ n_sub' = n_sub /\ h_panic' # NoPanic]_vars
    /\ [](Created \subseteq {n_sub})
    /\ [](n_callReturned => Created = serverSubs)
    /\ [](h_pc \in {"running", "called"} => serverSubs = {} /\ ~n_callReturned)
    /\ [][serverSubs' # serverSubs =>
             h_pc = "called" /\ h_pc' = "returned" /\ serverSubs' = {n_sub}]_vars

\* C34 witness: CreateSubscription returned a Subscription while the call
\* ran, addSubscriptions registered it, and a CreateSubscription made
\* after that panicked.
C34_Witness ==
    /\ c_res = <<NewSubID, "panic">>
    /\ n_callReturned /\ serverSubs = {NewSubID}
    /\ h_panic.g = "other"

(***************************************************************************)
(* ClientSubscription: forwarding order, the dispatcher, Unsubscribe      *)
(* (rpc/subscription.go:213-345)                                          *)
(***************************************************************************)
\* the subscription with its own goroutines scheduled: run is started and
\* takes each step it can by itself, and so does a call of Unsubscribe;
\* the dispatcher, the consumer of the channel and the reader of Err()
\* are free to do nothing
SpecClientSubFair ==
    /\ InitU /\ [][NextU]_vars
    /\ WF_vars(RunStart /\ ClientSubOnly)
    /\ WF_vars(RunCloseForwardDone /\ ClientSubOnly)
    /\ WF_vars(RunRequestUnsubscribe /\ ClientSubOnly)
    /\ \A u \in UProcs :
          /\ WF_vars(UnsubscribeOnceLock(u) /\ ClientSubOnly)
          /\ WF_vars(UnsubscribeSendQuit(u) /\ ClientSubOnly)
          /\ WF_vars(UnsubscribeSeeDone(u) /\ ClientSubOnly)
          /\ WF_vars(UnsubscribeCloseErr(u) /\ ClientSubOnly)

\* the events forward accepted from sub.in and queued: 1, 2, ... in the
\* order of the deliver calls
Queued(n) == [i \in 1..n |-> i]

\* C35: what the consumer received followed by what forward's buffer holds
\* is the sequence of events queued, in their order and each once; while
\* the loop runs that is every event the dispatcher delivered; and the
\* buffer loses a value only from its front, on the step on which the
\* consumer receives that value.
C35_ForwardFifo ==
    /\ [](got \o f_buffer = Queued(Len(got) + Len(f_buffer)))
    /\ [](r_pc = "forward" => Len(got) + Len(f_buffer) = d_n)
    /\ [][f_buffer' # f_buffer =>
             \/ /\ f_buffer' = Append(f_buffer, d_n + 1) /\ got' = got
             \/ /\ f_buffer # <<>> /\ f_buffer' = Tail(f_buffer)
                /\ got' = Append(got, Head(f_buffer))]_vars

\* C35 witness: two events were queued while the consumer had taken
\* nothing, and the consumer then received both, in order.
C35_Witness ==
    /\ got = <<1, 2>> /\ f_buffer = <<>> /\ r_pc = "forward"
    /\ d_n = 2

\* C36: while forward's loop runs, deliver and close can take their step
\* whatever the buffer holds and whatever the consumer does; the
\* server-side unsubscribe request is made only once forwardDone is
\* closed; with forwardDone closed deliver and close take their step and
\* leave the subscription alone; and forward having returned, run does
\* close forwardDone.
C36_DispatchNotBlocked ==
    /\ []((r_pc = "forward" /\ ~d_closed) =>
            /\ ENABLED (close("connection lost") /\ ClientSubOnly)
            /\ d_n < d_last => ENABLED (deliver(FALSE) /\ ClientSubOnly))
    /\ [][unsubReq' # unsubReq => forwardDone]_vars
    /\ []((forwardDone /\ ~d_closed) =>
            /\ ENABLED (close("connection lost") /\ ClientSubOnly)
            /\ d_n < d_last => ENABLED (deliver(FALSE) /\ ClientSubOnly))
    /\ [][(forwardDone /\ (d_n' # d_n \/ d_closed' # d_closed)) =>
             /\ f_buffer' = f_buffer /\ r_pc' = r_pc /\ f_err' = f_err
             /\ cause' = cause]_vars
    /\ (r_pc = "fwdReturned") ~> forwardDone

\* C36 witness: with an event queued that the consumer has not taken the
\* dispatcher delivered another; and with the loop stopped and forwardDone
\* closed, deliver and close returned.
C36_Witness ==
    /\ got = <<>> /\ d_n = 2 /\ d_closed
    /\ cause.kind = "unsubscribe" /\ Len(f_buffer) = 1 /\ forwardDone

\* C37: every call of Unsubscribe returns.
C37_UnsubscribeReturns ==
    \A u \in UProcs : (u_pc[u] # "idle") ~> (u_pc[u] = "returned")

(***************************************************************************)
(* Server.Stop, trackCodec, untrackCodec (rpc/server.go:68-127)           *)
(***************************************************************************)
\* a compare-and-swap that always succeeds
compareAndSwapAlways(run) == TRUE
\* atomic.CompareAndSwapInt32(&s.run, 1, 0): whether it swapped
compareAndSwap(run) == run = 1

ServerRest == UNCHANGED <<cvars, s_pc, s_reqs, s_batch, s_err>>

\* Server.trackCodec, under s.mutex
trackCodec(c) ==
    /\ sv_mutex = 0 /\ sv_track[c] = "none"
    /\ IF s_run = 0
          THEN /\ sv_track' = [sv_track EXCEPT ![c] = "false"]
               /\ UNCHANGED sv_codecs
          ELSE /\ sv_track' = [sv_track EXCEPT ![c] = "true"]
               /\ sv_codecs' = sv_codecs \cup {c}
    /\ UNCHANGED <<s_run, sv_mutex, sv_closes, sv_stop>>
    /\ ServerRest

\* Server.untrackCodec, under s.mutex, for a codec that was tracked
untrackCodec(c) ==
    /\ sv_mutex = 0 /\ sv_track[c] = "true"
    /\ sv_codecs' = sv_codecs \ {c}
    /\ sv_track' = [sv_track EXCEPT ![c] = "untracked"]
    /\ UNCHANGED <<s_run, sv_mutex, sv_closes, sv_stop>>
    /\ ServerRest

\* Server.Stop: s.mutex.Lock()
ServerStopLock(p) ==
    /\ sv_stop[p].pc = "idle" /\ sv_mutex = 0
    /\ sv_mutex' = p
    /\ sv_stop' = [sv_stop EXCEPT ![p].pc = "locked"]
    /\ UNCHANGED <<s_run, sv_codecs, sv_closes, sv_track>>
    /\ ServerRest

\* Server.Stop: the compare-and-swap of s.run; the call that swapped goes
\* on to range over s.codecs
ServerStopCas(p) ==
    /\ sv_stop[p].pc = "locked"
    /\ IF compareAndSwap(s_run)
          THEN /\ s_run' = 0
               /\ sv_stop' = [sv_stop EXCEPT ![p] =
                      [pc |-> "closing", won |-> TRUE, todo |-> sv_codecs,
                       first |-> sv_codecs]]
          ELSE /\ sv_stop' = [sv_stop EXCEPT ![p].pc = "unlock"]
               /\ UNCHANGED s_run
    /\ UNCHANGED <<sv_mutex, sv_codecs, sv_closes, sv_track>>
    /\ ServerRest

\* Server.Stop: codec.close() for one codec of the range
ServerStopClose(p, c) ==
    /\ sv_stop[p].pc = "closing" /\ c \in sv_stop[p].todo
    /\ sv_closes' = [sv_closes EXCEPT ![c] = @ + 1]
    /\ sv_stop' = [sv_stop EXCEPT ![p].todo = @ \ {c}]
    /\ UNCHANGED <<s_run, sv_mutex, sv_codecs, sv_track>>
    /\ ServerRest

\* Server.Stop: the deferred Unlock, and the return
ServerStopReturn(p) ==
    /\ \/ sv_stop[p].pc = "closing" /\ sv_stop[p].todo = {}
       \/ sv_stop[p].pc = "unlock"
    /\ sv_mutex' = 0
    /\ sv_stop' = [sv_stop EXCEPT ![p].pc = "returned"]
    /\ UNCHANGED <<s_run, sv_codecs, sv_closes, sv_track>>
    /\ ServerRest

ServerOnly ==
    UNCHANGED <<nvars, bvars, uvars, hvars, jvars, gvars, tvars, kvars,
                fvars, xvars, yvars,
                rvars>>

\* a running Server and one serveSingleRequest call about to be made
InitV ==
    /\ InitConn /\ InitNotifier /\ InitBatchIdle
    /\ s_run = 1 /\ s_pc = "start" /\ s_reqs = <<>> /\ s_batch = FALSE
    /\ s_err = "nil"
    /\ InitClientSub /\ InitHandler /\ InitLater

NextV ==
    \/ \E c \in Codecs : trackCodec(c) /\ ServerOnly
    \/ \E c \in Codecs : untrackCodec(c) /\ ServerOnly
    \/ \E p \in Stoppers : ServerStopLock(p) /\ ServerOnly
    \/ \E p \in Stoppers : ServerStopCas(p) /\ ServerOnly
    \/ \E p \in Stoppers, c \in Codecs : ServerStopClose(p, c) /\ ServerOnly
    \/ \E p \in Stoppers : ServerStopReturn(p) /\ ServerOnly
    \/ ServeStart /\ ServeOnly
    \/ \E reqs \in SeqsUpTo(ServeMsgs, 1), batch \in BOOLEAN,
          err \in {"nil", "EOF", "parse"} :
          ServeRead(reqs, batch, err) /\ ServeOnly
    \/ ServeReadError /\ ServeOnly
    \/ ServeBatch /\ ServeOnly
    \/ ServeMsg /\ ServeOnly
    \/ ServeClose /\ ServeOnly

SpecServer == InitV /\ [][NextV]_vars

\* a Stop call has returned
StopReturned == \E p \in Stoppers : sv_stop[p].pc = "returned"

\* C39: Stop calls codec.close() at most once for a codec, whatever the
\* number of Stop calls; the Stop call that swapped s.run has, when it
\* returns, closed every codec that was in s.codecs, and no other Stop
\* call closes anything; once a Stop call has returned, s.run is 0,
\* trackCodec returns false and leaves s.codecs alone, and a
\* serveSingleRequest call returns at its test of s.run, having read and
\* written nothing.
C39_StopFinal ==
    /\ [](\A c \in Codecs : sv_closes[c] <= 1)
    /\ [](\A p \in Stoppers : sv_stop[p].pc = "returned" =>
             IF sv_stop[p].won
                THEN \A c \in sv_stop[p].first : sv_closes[c] = 1
                ELSE sv_stop[p].first = {})
    /\ [](Cardinality({p \in Stoppers : sv_stop[p].won}) <= 1)
    /\ [](StopReturned => s_run = 0)
    /\ [][\A c \in Codecs :
             (StopReturned /\ sv_track[c] = "none" /\ sv_track'[c] # "none") =>
                 sv_track'[c] = "false" /\ sv_codecs' = sv_codecs]_vars
    /\ [][StopReturned => sv_codecs' \subseteq sv_codecs]_vars
    /\ [][(StopReturned /\ s_pc = "start" /\ s_pc' # "start") =>
             /\ s_pc' = "returned" /\ wire' = wire
             /\ s_reqs' = s_reqs /\ s_err' = s_err]_vars

\* C39 witness: codec 1 was tracked, the first Stop closed it, a second
\* Stop returned without closing anything, trackCodec then refused
\* codec 2, and the serveSingleRequest call returned without reading.
C39_Witness ==
    /\ \A p \in Stoppers : sv_stop[p].pc = "returned"
    /\ sv_track = <<"true", "false">>
    /\ sv_closes = <<1, 0>>
    /\ s_pc = "returned" /\ s_reqs = <<>> /\ s_err = "nil" /\ wire = <<>>

(***************************************************************************)
(* ResubscribeErr (event/subscription.go:100-212)                         *)
(***************************************************************************)
\* subscribe: fn returns; with no error the subscription is active, with
\* an error the loop waits in backoffWait
FnReturn(err) ==
    /\ rs_pc = "fn"
    /\ rs_pc' = IF err = "nil" THEN "active" ELSE "backoff"
    /\ UNCHANGED <<rs_tries, rs_last, rs_errClosed, rs_once, rs_u>>

\* backoffWait: the timer fires and subscribe calls fn again
BackoffTimer ==
    /\ rs_pc = "backoff" /\ rs_tries < MaxTries
    /\ rs_pc' = "fn" /\ rs_tries' = rs_tries + 1
    /\ UNCHANGED <<rs_last, rs_errClosed, rs_once, rs_u>>

\* waitForError: the active subscription's Err() yields err (nil when it
\* ended successfully); the loop is done on nil and subscribes again
\* otherwise
SubErr(err) ==
    /\ rs_pc = "active"
    /\ err # "nil" => rs_tries < MaxTries
    /\ rs_last' = err
    /\ rs_pc' = IF err = "nil" THEN "ending" ELSE "fn"
    /\ rs_tries' = IF err = "nil" THEN rs_tries ELSE rs_tries + 1
    /\ UNCHANGED <<rs_errClosed, rs_once, rs_u>>

\* the loop receives from s.unsub, in subscribe, backoffWait or
\* waitForError, what caller u sends in Unsubscribe
UnsubSignal(u) ==
    /\ rs_u[u] = "send"
    /\ rs_pc \in {"fn", "backoff", "active"}
    /\ rs_pc' = IF rs_pc = "fn" THEN "cancelled" ELSE "ending"
    /\ rs_u' = [rs_u EXCEPT ![u] = "wait"]
    /\ UNCHANGED <<rs_tries, rs_last, rs_errClosed, rs_once>>

\* subscribe after cancel(): <-subscribed, fn having returned
FnCancelled ==
    /\ rs_pc = "cancelled"
    /\ rs_pc' = "ending"
    /\ UNCHANGED <<rs_tries, rs_last, rs_errClosed, rs_once, rs_u>>

\* loop returns: the deferred close(s.err)
LoopClose ==
    /\ rs_pc = "ending"
    /\ rs_pc' = "closed" /\ rs_errClosed' = TRUE
    /\ UNCHANGED <<rs_tries, rs_last, rs_once, rs_u>>

\* resubscribeSub.Unsubscribe: s.unsubOnce.Do, the check of done
ResubUnsubCall(u) ==
    /\ rs_u[u] = "idle"
    /\ rs_u' = [rs_u EXCEPT ![u] = IF rs_once.done THEN "returned" ELSE "slow"]
    /\ UNCHANGED <<rs_pc, rs_tries, rs_last, rs_errClosed, rs_once>>

\* s.unsubOnce.Do: the Once's mutex; the first call runs the function
ResubUnsubOnce(u) ==
    /\ rs_u[u] = "slow" /\ rs_once.mu = 0
    /\ IF rs_once.done
          THEN /\ rs_u' = [rs_u EXCEPT ![u] = "returned"]
               /\ UNCHANGED rs_once
          ELSE /\ rs_u' = [rs_u EXCEPT ![u] = "send"]
               /\ rs_once' = [rs_once EXCEPT !.mu = u]
    /\ UNCHANGED <<rs_pc, rs_tries, rs_last, rs_errClosed>>

\* Unsubscribe: <-s.err on the closed channel; the Once is done
ResubUnsubWait(u) ==
    /\ rs_u[u] = "wait" /\ rs_errClosed
    /\ rs_u' = [rs_u EXCEPT ![u] = "returned"]
    /\ rs_once' = [mu |-> 0, done |-> TRUE]
    /\ UNCHANGED <<rs_pc, rs_tries, rs_last, rs_errClosed>>

ResubOnly ==
    UNCHANGED <<cvars, nvars, bvars, svars, uvars, hvars, jvars, gvars,
                tvars, kvars, fvars, xvars, yvars, zvars>>

NextR ==
    \/ \E err \in {"nil", "failed"} : FnReturn(err) /\ ResubOnly
    \/ BackoffTimer /\ ResubOnly
    \/ \E err \in {"nil", "lost"} : SubErr(err) /\ ResubOnly
    \/ \E u \in ResubCallers : UnsubSignal(u) /\ ResubOnly
    \/ FnCancelled /\ ResubOnly
    \/ LoopClose /\ ResubOnly
    \/ \E u \in ResubCallers : ResubUnsubCall(u) /\ ResubOnly
    \/ \E u \in ResubCallers : ResubUnsubOnce(u) /\ ResubOnly
    \/ \E u \in ResubCallers : ResubUnsubWait(u) /\ ResubOnly

\* the resubscribe loop with its goroutines scheduled: the loop takes the
\* steps that depend on nothing but itself and on a cancelled fn, and so
\* do the callers of Unsubscribe; whether fn returns, the timer fires or
\* the active subscription ends is left open
SpecResubFair ==
    /\ InitH /\ [][NextR]_vars
    /\ WF_vars(FnCancelled /\ ResubOnly)
    /\ WF_vars(LoopClose /\ ResubOnly)
    /\ \A u \in ResubCallers :
          /\ WF_vars(UnsubSignal(u) /\ ResubOnly)
          /\ WF_vars(ResubUnsubOnce(u) /\ ResubOnly)
          /\ WF_vars(ResubUnsubWait(u) /\ ResubOnly)

\* C40: every call of Unsubscribe returns, and when one has returned
\* s.err is closed.
C40_ResubUnsubscribe ==
    /\ \A u \in ResubCallers : (rs_u[u] # "idle") ~> (rs_u[u] = "returned")
    /\ [](\A u \in ResubCallers : rs_u[u] = "returned" => rs_errClosed)

====
